---- MODULE Spec2Model ----
(***************************************************************************)
(* Brick game platform: the table-driven FSM engine (s21_fsm.c), the Snake *)
(* core (s21_snake_internals.cpp) and the Tetris core                      *)
(* (s21_tetris_internals.c, s21_tetris.c).                                 *)
(*                                                                         *)
(* An object that owns a machine is a record with a field `fsm`; the       *)
(* remaining fields are the context the callbacks work on (in the C code   *)
(* the context pointer handed to fsm_init is the owning object itself).    *)
(***************************************************************************)
EXTENDS Integers, Sequences, FiniteSets, TLC

VARIABLES hm, hprev, hops, hret, hstart, sn, tg, bg

----------------------------------------------------------------------------
(* Bounds of the FSM harness *)

\* states of a harness table are 0..MaxState
MaxState == 1
\* events of a harness table are 0..MaxEvent (0 is FSM_EVENT_NONE)
MaxEvent == 1
\* a harness table has 1..MaxTable entries
MaxTable == 2
\* number of calls made on the harness machine
MaxOps == 3


(* Bounds of the Snake model.  The field size, the winning length and the  *)
(* game-over delay are set in s21_snake_internals.hpp; the model runs the  *)
(* same code on a smaller board and with a shorter delay.                  *)

SNAKE_FIELD_COLS == 4
SNAKE_FIELD_ROWS == 3
SNAKE_MAX_LENGTH == 5
GAME_OVER_DELAY_TICKS == 2
\* the score file read at construction holds 0..MaxStoredScore
MaxStoredScore == 1

SNAKE_INITIAL_LENGTH == 3
SNAKE_BODY_CELL == 1
SNAKE_HEAD_CELL == 2
SNAKE_APPLE_CELL == 3

(* Bounds of the Tetris model.  The field size is set in                    *)
(* s21_tetris_internals.h; the model runs the same code on a smaller field *)
(* and bounds what rand() yields and how long a round is followed.         *)

TETRIS_FIELD_COLS == 4
TETRIS_FIELD_ROWS == 5
\* rand() yields 0..MaxRand
MaxRand == 1
\* a round is followed until MaxLines rows were cleared
MaxLines == 2
\* ints of allocator padding between two rows of a matrix: 0..MaxHeapPad
MaxHeapPad == 1

TETRIS_NUM_PIECES == 7
TETRIS_ROTATIONS == 4
TETRIS_NEXT_SIZE == 4
TETRIS_INITIAL_SPEED == 1

FSM_EVENT_NONE == 0

\* a null callback pointer
NULL == [kind |-> "null", tag |-> "none", event |-> 0]

Min(S) == CHOOSE x \in S : \A y \in S : x <= y

----------------------------------------------------------------------------
(* Snake: types, model helpers and the FSM callback *)

\* enum class SnakeState / SnakeEvent, in declaration order
SnakeStates == <<"INIT", "MOVE", "PAUSED", "GAME_OVER">>
SnakeEvents == <<"NONE", "START", "PAUSE_TOGGLE", "TERMINATE", "MOVE_LEFT",
                 "MOVE_RIGHT", "MOVE_UP", "MOVE_DOWN", "AUTO_RESET">>

IndexOf(seq, v) == CHOOSE i \in DOMAIN seq : seq[i] = v

to_fsm_state(name) == IndexOf(SnakeStates, name) - 1
from_fsm_state(n) == SnakeStates[n + 1]
\* SnakeEvent::NONE is 0; AUTO_RESET is an event of its own, which
\* processEvent_ hands to fsm_process_event like START or TERMINATE
to_fsm_event(name) == IndexOf(SnakeEvents, name) - 1

SnakeSegment(x, y) == [x |-> x, y |-> y]
CellKey(seg) == seg.y * SNAKE_FIELD_COLS + seg.x
SnakeCells == 0..(SNAKE_FIELD_ROWS * SNAKE_FIELD_COLS - 1)

initialize_(s) ==
  [s EXCEPT !.direction_ = "RIGHT",
            !.next_direction_ = "RIGHT",
            !.info.score = 0,
            !.info.level = 1,
            !.info.speed = 1,
            !.info.pause = 0,
            !.game_over_handled_ = FALSE,
            !.game_over_timer_ = 0,
            !.apple_x_ = -1,
            !.apple_y_ = -1,
            !.body_ = <<>>,
            !.occupied_cells_ = {}]

rebuildOccupiedCells_(s) ==
  [s EXCEPT !.occupied_cells_ = {CellKey(s.body_[i]) : i \in DOMAIN s.body_}]

initializeSnake_(s) ==
  LET start_x == SNAKE_FIELD_COLS \div 2
      start_y == SNAKE_FIELD_ROWS \div 2
      s1 == [s EXCEPT !.body_ = [i \in 1..SNAKE_INITIAL_LENGTH |->
                                   SnakeSegment(start_x - (i - 1), start_y)],
                      !.direction_ = "RIGHT",
                      !.next_direction_ = "RIGHT"]
  IN rebuildOccupiedCells_(s1)

\* free_cells is filled row by row, so it is ordered by key; s.rnd is the
\* number the generator yields for this call, rnd_used records that it was
\* drawn
spawnApple_(s) ==
  LET free == SnakeCells \ s.occupied_cells_
      index == s.rnd % Cardinality(free)
      key == CHOOSE k \in free : Cardinality({j \in free : j < k}) = index
  IN IF free # {}
     THEN [s EXCEPT !.apple_x_ = key % SNAKE_FIELD_COLS,
                    !.apple_y_ = key \div SNAKE_FIELD_COLS,
                    !.rnd_used = TRUE]
     ELSE IF s.body_ # <<>>
     THEN [s EXCEPT !.apple_x_ = s.body_[Len(s.body_)].x,
                    !.apple_y_ = s.body_[Len(s.body_)].y]
     ELSE [s EXCEPT !.apple_x_ = SNAKE_FIELD_COLS \div 2,
                    !.apple_y_ = SNAKE_FIELD_ROWS \div 2]

on_state_enter_(s) ==
  LET new_state == from_fsm_state(s.fsm.current) IN
  CASE new_state = "INIT" -> initialize_(s)
    [] new_state = "MOVE" ->
         LET s1 == [s EXCEPT !.info.pause = 0]
         IN IF s1.body_ = <<>>
            THEN spawnApple_(rebuildOccupiedCells_(initializeSnake_(s1)))
            ELSE s1
    [] new_state = "PAUSED" -> [s EXCEPT !.info.pause = 1]
    [] new_state = "GAME_OVER" -> [s EXCEPT !.info.pause = 0]

snake_cb == [kind |-> "snake_on_state_enter", tag |-> "enter", event |-> 0]

SnakeTransition(src, ev, dst) ==
  [src |-> to_fsm_state(src), event |-> to_fsm_event(ev),
   dst |-> to_fsm_state(dst), on_exit |-> NULL, on_enter |-> snake_cb]

transitions_ ==
  << SnakeTransition("INIT", "START", "MOVE"),
     SnakeTransition("MOVE", "PAUSE_TOGGLE", "PAUSED"),
     SnakeTransition("PAUSED", "PAUSE_TOGGLE", "MOVE"),
     SnakeTransition("MOVE", "TERMINATE", "GAME_OVER"),
     SnakeTransition("GAME_OVER", "AUTO_RESET", "INIT") >>

----------------------------------------------------------------------------
(* Tetris: types, model helpers and the FSM callbacks *)

\* TetrisState / TetrisEvent, in declaration order (TETRIS_EVT_NONE is 0)
TetrisStates == <<"INIT", "SPAWN", "FALL", "LOCK", "PAUSED", "GAME_OVER">>
TetrisEvents == <<"NONE", "START", "TICK", "MOVE_LEFT", "MOVE_RIGHT", "ROTATE",
                  "MOVE_DOWN", "DROP", "PAUSE_TOGGLE", "TERMINATE">>

TState(name) == IndexOf(TetrisStates, name) - 1
TStateName(n) == TetrisStates[n + 1]
TEvent(name) == IndexOf(TetrisEvents, name) - 1

\* the 4x4 bitmaps, rotation 0..3 of piece type 0..6 (I, O, T, S, Z, J, L)
TETROMINO_DATA ==
  << << <<<<0,0,0,0>>, <<1,1,1,1>>, <<0,0,0,0>>, <<0,0,0,0>>>>,
        <<<<0,0,1,0>>, <<0,0,1,0>>, <<0,0,1,0>>, <<0,0,1,0>>>>,
        <<<<0,0,0,0>>, <<0,0,0,0>>, <<1,1,1,1>>, <<0,0,0,0>>>>,
        <<<<0,1,0,0>>, <<0,1,0,0>>, <<0,1,0,0>>, <<0,1,0,0>>>> >>,
     << <<<<0,1,1,0>>, <<0,1,1,0>>, <<0,0,0,0>>, <<0,0,0,0>>>>,
        <<<<0,1,1,0>>, <<0,1,1,0>>, <<0,0,0,0>>, <<0,0,0,0>>>>,
        <<<<0,1,1,0>>, <<0,1,1,0>>, <<0,0,0,0>>, <<0,0,0,0>>>>,
        <<<<0,1,1,0>>, <<0,1,1,0>>, <<0,0,0,0>>, <<0,0,0,0>>>> >>,
     << <<<<0,1,0,0>>, <<1,1,1,0>>, <<0,0,0,0>>, <<0,0,0,0>>>>,
        <<<<0,1,0,0>>, <<0,1,1,0>>, <<0,1,0,0>>, <<0,0,0,0>>>>,
        <<<<0,0,0,0>>, <<1,1,1,0>>, <<0,1,0,0>>, <<0,0,0,0>>>>,
        <<<<0,1,0,0>>, <<1,1,0,0>>, <<0,1,0,0>>, <<0,0,0,0>>>> >>,
     << <<<<0,1,1,0>>, <<1,1,0,0>>, <<0,0,0,0>>, <<0,0,0,0>>>>,
        <<<<0,1,0,0>>, <<0,1,1,0>>, <<0,0,1,0>>, <<0,0,0,0>>>>,
        <<<<0,0,0,0>>, <<0,1,1,0>>, <<1,1,0,0>>, <<0,0,0,0>>>>,
        <<<<1,0,0,0>>, <<1,1,0,0>>, <<0,1,0,0>>, <<0,0,0,0>>>> >>,
     << <<<<1,1,0,0>>, <<0,1,1,0>>, <<0,0,0,0>>, <<0,0,0,0>>>>,
        <<<<0,0,1,0>>, <<0,1,1,0>>, <<0,1,0,0>>, <<0,0,0,0>>>>,
        <<<<0,0,0,0>>, <<1,1,0,0>>, <<0,1,1,0>>, <<0,0,0,0>>>>,
        <<<<0,1,0,0>>, <<1,1,0,0>>, <<1,0,0,0>>, <<0,0,0,0>>>> >>,
     << <<<<1,0,0,0>>, <<1,1,1,0>>, <<0,0,0,0>>, <<0,0,0,0>>>>,
        <<<<0,1,1,0>>, <<0,1,0,0>>, <<0,1,0,0>>, <<0,0,0,0>>>>,
        <<<<0,0,0,0>>, <<1,1,1,0>>, <<0,0,1,0>>, <<0,0,0,0>>>>,
        <<<<0,1,0,0>>, <<0,1,0,0>>, <<1,1,0,0>>, <<0,0,0,0>>>> >>,
     << <<<<0,0,1,0>>, <<1,1,1,0>>, <<0,0,0,0>>, <<0,0,0,0>>>>,
        <<<<0,1,0,0>>, <<0,1,0,0>>, <<0,1,1,0>>, <<0,0,0,0>>>>,
        <<<<0,0,0,0>>, <<1,1,1,0>>, <<1,0,0,0>>, <<0,0,0,0>>>>,
        <<<<1,1,0,0>>, <<0,1,0,0>>, <<0,1,0,0>>, <<0,0,0,0>>>> >> >>

\* cells (row, col) a bitmap occupies, as a set
ShapeCellsOf(bitmap) ==
  {rc \in (0..3) \X (0..3) : bitmap[rc[1] + 1][rc[2] + 1] # 0}

\* tetris_getPieceData: occupied (row, col) pairs of type/rotation
tetris_getPieceData(type, rotation) ==
  ShapeCellsOf(TETROMINO_DATA[type + 1][rotation + 1])

TRows == 0..(TETRIS_FIELD_ROWS - 1)
TCols == 0..(TETRIS_FIELD_COLS - 1)
EmptyRow == [c \in TCols |-> 0]
EmptyField == [r \in TRows |-> EmptyRow]

TetrisPiece(type, rotation, x, y) ==
  [type |-> type, rotation |-> rotation, x |-> x, y |-> y]

\* field cells the piece covers, off-field ones included
PieceCells(piece) ==
  {<<piece.y + rc[1], piece.x + rc[2]>> :
     rc \in tetris_getPieceData(piece.type, piece.rotation)}

tetris_clear_field(g) == [g EXCEPT !.field_storage = EmptyField]

\* the preview buffer shows the bitmap of `next`
tetris_update_next_preview(g) ==
  [r \in 0..(TETRIS_NEXT_SIZE - 1) |-> [c \in 0..(TETRIS_NEXT_SIZE - 1) |->
     IF <<r, c>> \in tetris_getPieceData(g.next.type, g.next.rotation)
     THEN 1 ELSE 0]]

tetris_check_collision(g, piece) ==
  \E cell \in PieceCells(piece) :
    \/ cell[2] < 0 \/ cell[2] >= TETRIS_FIELD_COLS
    \/ /\ cell[1] >= 0
       /\ \/ cell[1] >= TETRIS_FIELD_ROWS
          \/ g.field_storage[cell[1]][cell[2]] # 0

tetris_lock_piece_below(g) ==
  [g EXCEPT !.field_storage =
     [r \in TRows |-> [c \in TCols |->
        IF <<r - 1, c>> \in PieceCells(g.current) THEN 1 ELSE @[r][c]]]]

tetris_lock_piece(g) ==
  [g EXCEPT !.field_storage =
     [r \in TRows |-> [c \in TCols |->
        IF <<r, c>> \in PieceCells(g.current) THEN 1 ELSE @[r][c]]]]

tetris_is_line_full(g, row) ==
  /\ row >= 0 /\ row < TETRIS_FIELD_ROWS
  /\ \A col \in TCols : g.field_storage[row][col] # 0

\* memmove of n ints from the start of row src to the start of row dst, the
\* rows of the matrix being separate heap blocks `stride` ints apart
MemmoveRows(field, dst, src, n, stride) ==
  [r \in TRows |-> [c \in TCols |->
     IF r >= dst /\ (r - dst) * stride + c < n /\ src + (r - dst) \in TRows
     THEN field[src + (r - dst)][c]
     ELSE field[r][c]]]

\* Each row is a calloc block of its own.  Copying one row stays inside the
\* blocks; a longer memmove runs past the end of both blocks, which is
\* undefined: g.ub is what the build makes of it, either the process dies or
\* the copy runs over rows lying g.ub.pad ints apart.
tetris_clear_full_lines(g) ==
  LET full == {row \in TRows : tetris_is_line_full(g, row)}
      full_count == Cardinality(full)
      first_full == Min(full)
      rows_to_move == TETRIS_FIELD_ROWS - first_full - full_count
      n == rows_to_move * TETRIS_FIELD_COLS
      zeroed(f) == [r \in TRows |->
                      IF r >= TETRIS_FIELD_ROWS - full_count THEN EmptyRow ELSE f[r]]
  IN IF full_count = 0 THEN [g |-> g, cleared |-> 0]
     ELSE IF rows_to_move <= 0
     THEN [g |-> [g EXCEPT !.field_storage = zeroed(@)], cleared |-> full_count]
     ELSE IF rows_to_move = 1
     THEN [g |-> [g EXCEPT !.field_storage =
                    zeroed(MemmoveRows(@, first_full, first_full + full_count, n,
                                       TETRIS_FIELD_COLS))],
           cleared |-> full_count]
     ELSE IF g.ub.abort
     THEN [g |-> [g EXCEPT !.crashed = TRUE, !.ub_used = TRUE], cleared |-> 0]
     ELSE [g |-> [g EXCEPT !.field_storage =
                    zeroed(MemmoveRows(@, first_full, first_full + full_count, n,
                                       TETRIS_FIELD_COLS + g.ub.pad)),
                           !.ub_used = TRUE],
           cleared |-> full_count]

\* g.rnd.type and g.rnd.rotation are what the two rand() calls yield
tetris_generate_next_piece(g) ==
  [g EXCEPT !.next = TetrisPiece(g.rnd.type % TETRIS_NUM_PIECES,
                                 g.rnd.rotation % TETRIS_ROTATIONS,
                                 TETRIS_FIELD_COLS \div 2 - 2, 0),
            !.rnd_used = TRUE]

tetris_spawn_piece_unchecked(g) ==
  tetris_generate_next_piece([g EXCEPT !.current = g.next])

tetris_spawn_piece(g) ==
  LET g1 == tetris_generate_next_piece([g EXCEPT !.current = g.next])
  IN IF tetris_check_collision(g1, g1.current)
     THEN [g1 EXCEPT !.game_over = TRUE]
     ELSE g1

tetris_move_piece_unchecked(g, dx, dy) ==
  LET tmp == [g.current EXCEPT !.x = @ + dx, !.y = @ + dy]
  IN IF \E cell \in PieceCells(tmp) : cell[1] >= TETRIS_FIELD_ROWS
     THEN [g |-> g, ok |-> FALSE]
     ELSE [g |-> [g EXCEPT !.current = tmp], ok |-> TRUE]

tetris_move_piece(g, dx, dy) ==
  LET tmp == [g.current EXCEPT !.x = @ + dx, !.y = @ + dy]
  IN IF tetris_check_collision(g, tmp)
     THEN [g |-> g, ok |-> FALSE]
     ELSE [g |-> [g EXCEPT !.current = tmp], ok |-> TRUE]

tetris_rotate_piece_kick(g, direction) ==
  LET tmp == [g.current EXCEPT !.rotation = (@ + direction) % TETRIS_ROTATIONS]
      kicked == [tmp EXCEPT !.x = @ + 1]
  IN IF ~tetris_check_collision(g, tmp)
     THEN [g |-> [g EXCEPT !.current = tmp], ok |-> TRUE]
     ELSE IF ~tetris_check_collision(g, kicked)
     THEN [g |-> [g EXCEPT !.current = kicked], ok |-> TRUE]
     ELSE [g |-> g, ok |-> FALSE]

tetris_rotate_piece(g, direction) ==
  LET tmp == [g.current EXCEPT !.rotation = (@ + direction) % TETRIS_ROTATIONS]
  IN IF tetris_check_collision(g, tmp)
     THEN [g |-> g, ok |-> FALSE]
     ELSE [g |-> [g EXCEPT !.current = tmp], ok |-> TRUE]

tetris_update_high_score(g) ==
  IF g.info.score > g.high_score
  THEN [g EXCEPT !.high_score = g.info.score, !.info.high_score = g.info.score]
  ELSE [g EXCEPT !.info.high_score = g.high_score]

tetris_apply_cleared_lines_level_first(g, lines) ==
  IF lines <= 0 \/ lines > 4 THEN g ELSE
  LET score_bonus == CASE lines = 1 -> 100
                       [] lines = 2 -> 300
                       [] lines = 3 -> 700
                       [] lines = 4 -> 1500
      level == 1 + g.lines_cleared \div 10
  IN tetris_update_high_score(
       [g EXCEPT !.lines_cleared = @ + lines,
                 !.info.score = @ + score_bonus,
                 !.info.level = level,
                 !.info.speed = TETRIS_INITIAL_SPEED + level - 1])

tetris_apply_cleared_lines(g, lines) ==
  IF lines <= 0 \/ lines > 4 THEN g ELSE
  LET score_bonus == CASE lines = 1 -> 100
                       [] lines = 2 -> 300
                       [] lines = 3 -> 700
                       [] lines = 4 -> 1500
      level == 1 + (g.lines_cleared + lines) \div 10
  IN tetris_update_high_score(
       [g EXCEPT !.lines_cleared = @ + lines,
                 !.info.score = @ + score_bonus,
                 !.info.level = level,
                 !.info.speed = TETRIS_INITIAL_SPEED + level - 1])

on_enter_init(g) ==
  tetris_generate_next_piece(tetris_clear_field(
    [g EXCEPT !.lines_cleared = 0,
              !.game_over = FALSE,
              !.started = TRUE,
              !.info.score = 0,
              !.info.level = 1,
              !.info.speed = TETRIS_INITIAL_SPEED,
              !.info.pause = 0,
              !.info.high_score = g.high_score,
              !.current = TetrisPiece(0, 0, 0, 0)]))

on_enter_spawn(g) == tetris_spawn_piece([g EXCEPT !.info.pause = 0])

on_enter_lock(g) ==
  LET r == tetris_clear_full_lines(tetris_lock_piece(g))
  IN IF r.cleared > 0 THEN tetris_apply_cleared_lines(r.g, r.cleared) ELSE r.g

on_enter_paused(g) == [g EXCEPT !.info.pause = 1]

on_exit_paused_keep_flag(g) == g

on_exit_paused(g) == [g EXCEPT !.info.pause = 0]

on_enter_game_over(g) == [g EXCEPT !.game_over = TRUE]

TetrisCb(name) == [kind |-> name, tag |-> "tetris", event |-> 0]

TetrisTransition(src, ev, dst, on_exit, on_enter) ==
  [src |-> TState(src), event |-> TEvent(ev), dst |-> TState(dst),
   on_exit |-> on_exit, on_enter |-> on_enter]

\* the table with the restart entry keyed on the tick event
tetris_transitions_restart_on_tick ==
  << TetrisTransition("INIT", "START", "SPAWN", NULL, TetrisCb("on_enter_spawn")),
     TetrisTransition("SPAWN", "TICK", "FALL", NULL, NULL),
     TetrisTransition("SPAWN", "NONE", "GAME_OVER", NULL, TetrisCb("on_enter_game_over")),
     TetrisTransition("FALL", "TICK", "LOCK", NULL, TetrisCb("on_enter_lock")),
     TetrisTransition("FALL", "MOVE_DOWN", "LOCK", NULL, TetrisCb("on_enter_lock")),
     TetrisTransition("FALL", "DROP", "LOCK", NULL, TetrisCb("on_enter_lock")),
     TetrisTransition("FALL", "MOVE_LEFT", "FALL", NULL, NULL),
     TetrisTransition("FALL", "MOVE_RIGHT", "FALL", NULL, NULL),
     TetrisTransition("FALL", "ROTATE", "FALL", NULL, NULL),
     TetrisTransition("FALL", "PAUSE_TOGGLE", "PAUSED", NULL, TetrisCb("on_enter_paused")),
     TetrisTransition("PAUSED", "PAUSE_TOGGLE", "FALL", TetrisCb("on_exit_paused"), NULL),
     TetrisTransition("FALL", "TERMINATE", "GAME_OVER", NULL, TetrisCb("on_enter_game_over")),
     TetrisTransition("LOCK", "TICK", "SPAWN", NULL, TetrisCb("on_enter_spawn")),
     TetrisTransition("GAME_OVER", "TICK", "INIT", NULL, TetrisCb("on_enter_init")) >>

tetris_transitions ==
  << TetrisTransition("INIT", "START", "SPAWN", NULL, TetrisCb("on_enter_spawn")),
     TetrisTransition("SPAWN", "TICK", "FALL", NULL, NULL),
     TetrisTransition("SPAWN", "NONE", "GAME_OVER", NULL, TetrisCb("on_enter_game_over")),
     TetrisTransition("FALL", "TICK", "LOCK", NULL, TetrisCb("on_enter_lock")),
     TetrisTransition("FALL", "MOVE_DOWN", "LOCK", NULL, TetrisCb("on_enter_lock")),
     TetrisTransition("FALL", "DROP", "LOCK", NULL, TetrisCb("on_enter_lock")),
     TetrisTransition("FALL", "MOVE_LEFT", "FALL", NULL, NULL),
     TetrisTransition("FALL", "MOVE_RIGHT", "FALL", NULL, NULL),
     TetrisTransition("FALL", "ROTATE", "FALL", NULL, NULL),
     TetrisTransition("FALL", "PAUSE_TOGGLE", "PAUSED", NULL, TetrisCb("on_enter_paused")),
     TetrisTransition("PAUSED", "PAUSE_TOGGLE", "FALL", TetrisCb("on_exit_paused"), NULL),
     TetrisTransition("FALL", "TERMINATE", "GAME_OVER", NULL, TetrisCb("on_enter_game_over")),
     TetrisTransition("LOCK", "TICK", "SPAWN", NULL, TetrisCb("on_enter_spawn")),
     TetrisTransition("GAME_OVER", "NONE", "INIT", NULL, TetrisCb("on_enter_init")) >>

----------------------------------------------------------------------------
(* fsm_t and the callbacks *)

RECURSIVE fsm_process_event(_, _)
RECURSIVE fsm_update(_)
RECURSIVE ProcessScan(_, _, _)
RECURSIVE UpdateScan(_, _)
RECURSIVE Callback(_, _)
RECURSIVE ProcessScanLast(_, _, _)
RECURSIVE ProcessScanAnySrc(_, _, _)
RECURSIVE ProcessScanEarlySet(_, _, _)
RECURSIVE UpdateScanNoBreak(_, _)

\* harness callback that only records what it observes
cb_log(cb, m) ==
  [m EXCEPT !.log = Append(@, [tag |-> cb.tag, kind |-> cb.kind,
                               seen |-> m.fsm.current, ret |-> FALSE,
                               after |-> m.fsm.current, calls |-> 0,
                               event |-> cb.event])]

\* harness callback that sends an event to its own machine
cb_nested_event(cb, m) ==
  LET r == fsm_process_event(m, cb.event)
  IN [r.m EXCEPT !.log = Append(@, [tag |-> cb.tag, kind |-> cb.kind,
                                    seen |-> m.fsm.current, ret |-> r.ret,
                                    after |-> r.m.fsm.current,
                                    calls |-> Len(r.m.log) - Len(m.log),
                                    event |-> cb.event])]

\* harness callback that calls fsm_update on its own machine
cb_nested_update(cb, m) ==
  LET r == fsm_update(m)
  IN [r EXCEPT !.log = Append(@, [tag |-> cb.tag, kind |-> cb.kind,
                                  seen |-> m.fsm.current, ret |-> FALSE,
                                  after |-> r.fsm.current,
                                  calls |-> Len(r.log) - Len(m.log),
                                  event |-> cb.event])]

Callback(cb, m) ==
  CASE cb.kind = "log"           -> cb_log(cb, m)
    [] cb.kind = "nested_event"  -> cb_nested_event(cb, m)
    [] cb.kind = "nested_update" -> cb_nested_update(cb, m)
    [] cb.kind = "snake_on_state_enter" -> on_state_enter_(m)
    [] cb.kind = "on_enter_init"      -> on_enter_init(m)
    [] cb.kind = "on_enter_spawn"     -> on_enter_spawn(m)
    [] cb.kind = "on_enter_lock"      -> on_enter_lock(m)
    [] cb.kind = "on_enter_paused"    -> on_enter_paused(m)
    [] cb.kind = "on_exit_paused"     -> on_exit_paused(m)
    [] cb.kind = "on_enter_game_over" -> on_enter_game_over(m)

\* `if (t->on_exit) t->on_exit(fsm->ctx)`
Call(cb, m) == IF cb = NULL THEN m ELSE Callback(cb, m)

fsm_init(m, transitions, count, start_state) ==
  IF count < 1
  THEN [ok |-> FALSE, m |-> m]
  ELSE [ok |-> TRUE,
        m  |-> [m EXCEPT !.fsm = [transitions |-> transitions,
                                  count       |-> count,
                                  current     |-> start_state,
                                  processing  |-> FALSE]]]

\* mutation: the table is scanned from its last entry
ProcessScanLast(m, event, i) ==
  IF i > m.fsm.count
  THEN [m |-> [m EXCEPT !.fsm.processing = FALSE], ret |-> FALSE]
  ELSE LET t == m.fsm.transitions[m.fsm.count + 1 - i] IN
       IF t.src = m.fsm.current /\ t.event = event
       THEN LET m2 == Call(t.on_exit, m)
                m3 == [m2 EXCEPT !.fsm.current = t.dst]
                m4 == Call(t.on_enter, m3)
            IN [m |-> [m4 EXCEPT !.fsm.processing = FALSE], ret |-> TRUE]
       ELSE ProcessScanLast(m, event, i + 1)

\* mutation: an entry matches on the event alone
ProcessScanAnySrc(m, event, i) ==
  IF i > m.fsm.count
  THEN [m |-> [m EXCEPT !.fsm.processing = FALSE], ret |-> FALSE]
  ELSE LET t == m.fsm.transitions[i] IN
       IF t.event = event
       THEN LET m2 == Call(t.on_exit, m)
                m3 == [m2 EXCEPT !.fsm.current = t.dst]
                m4 == Call(t.on_enter, m3)
            IN [m |-> [m4 EXCEPT !.fsm.processing = FALSE], ret |-> TRUE]
       ELSE ProcessScanAnySrc(m, event, i + 1)

\* mutation: the state is changed before the exit callback runs
ProcessScanEarlySet(m, event, i) ==
  IF i > m.fsm.count
  THEN [m |-> [m EXCEPT !.fsm.processing = FALSE], ret |-> FALSE]
  ELSE LET t == m.fsm.transitions[i] IN
       IF t.src = m.fsm.current /\ t.event = event
       THEN LET m2 == [m EXCEPT !.fsm.current = t.dst]
                m3 == Call(t.on_exit, m2)
                m4 == Call(t.on_enter, m3)
            IN [m |-> [m4 EXCEPT !.fsm.processing = FALSE], ret |-> TRUE]
       ELSE ProcessScanEarlySet(m, event, i + 1)

\* the for loop of fsm_process_event from index i on (1-based)
ProcessScan(m, event, i) ==
  IF i > m.fsm.count
  THEN [m |-> [m EXCEPT !.fsm.processing = FALSE], ret |-> FALSE]
  ELSE LET t == m.fsm.transitions[i] IN
       IF t.src = m.fsm.current /\ t.event = event
       THEN LET m2 == Call(t.on_exit, m)
                m3 == [m2 EXCEPT !.fsm.current = t.dst]
                m4 == Call(t.on_enter, m3)
            IN [m |-> [m4 EXCEPT !.fsm.processing = FALSE], ret |-> TRUE]
       ELSE ProcessScan(m, event, i + 1)

\* mutation: a call made while the machine is processing reports success
fsm_process_event_busy_true(m, event) ==
  IF m.fsm.processing
  THEN [m |-> m, ret |-> TRUE]
  ELSE ProcessScan([m EXCEPT !.fsm.processing = TRUE], event, 1)

fsm_process_event(m, event) ==
  IF m.fsm.processing
  THEN [m |-> m, ret |-> FALSE]
  ELSE ProcessScan([m EXCEPT !.fsm.processing = TRUE], event, 1)

\* mutation: the loop goes on after a transition was taken (no break)
UpdateScanNoBreak(m, i) ==
  IF i > m.fsm.count
  THEN [m EXCEPT !.fsm.processing = FALSE]
  ELSE LET t == m.fsm.transitions[i] IN
       IF t.src = m.fsm.current /\ t.event = FSM_EVENT_NONE
       THEN LET m2 == Call(t.on_exit, m)
                m3 == [m2 EXCEPT !.fsm.current = t.dst]
                m4 == Call(t.on_enter, m3)
            IN UpdateScanNoBreak(m4, i + 1)
       ELSE UpdateScanNoBreak(m, i + 1)

\* the for loop of fsm_update from index i on (1-based)
UpdateScan(m, i) ==
  IF i > m.fsm.count
  THEN [m EXCEPT !.fsm.processing = FALSE]
  ELSE LET t == m.fsm.transitions[i] IN
       IF t.src = m.fsm.current /\ t.event = FSM_EVENT_NONE
       THEN LET m2 == Call(t.on_exit, m)
                m3 == [m2 EXCEPT !.fsm.current = t.dst]
                m4 == Call(t.on_enter, m3)
            IN [m4 EXCEPT !.fsm.processing = FALSE]
       ELSE UpdateScan(m, i + 1)

fsm_update(m) ==
  IF m.fsm.processing
  THEN m
  ELSE UpdateScan([m EXCEPT !.fsm.processing = TRUE], 1)

----------------------------------------------------------------------------
(* Harness: one machine over a table drawn from a bounded family, driven   *)
(* by fsm_process_event and fsm_update calls (as tests/test_fsm.c does).   *)

HStates == 0..MaxState
HEvents == 0..MaxEvent

\* callbacks a harness table can carry in its on_exit / on_enter slots
HCallbacks(tag) ==
  {NULL} \cup {[kind |-> "log", tag |-> tag, event |-> 0]}
         \cup {[kind |-> "nested_event", tag |-> tag, event |-> e] : e \in HEvents \ {0}}
         \cup {[kind |-> "nested_update", tag |-> tag, event |-> 0]}

HPlain == [src : HStates, event : HEvents, dst : HStates]

HTables ==
  UNION {[1..n -> HPlain] : n \in 1..MaxTable}

\* every entry of a harness table carries the same pair of callback functions
HWithCallbacks(tbl, cx, cn) ==
  [i \in DOMAIN tbl |-> [src |-> tbl[i].src, event |-> tbl[i].event,
                         dst |-> tbl[i].dst, on_exit |-> cx, on_enter |-> cn]]

\* no game instance
NoGame == [alive |-> FALSE]
\* the game registry is not in use
NoRegistry == [alive |-> FALSE]

HBlank == [fsm |-> [transitions |-> <<>>, count |-> 0, current |-> 0,
                    processing |-> FALSE],
           log |-> <<>>]

HInit ==
  \E tbl \in HTables, cx \in HCallbacks("exit"), cn \in HCallbacks("enter"),
     s0 \in HStates :
    LET t == HWithCallbacks(tbl, cx, cn)
        r == fsm_init(HBlank, t, Len(t), s0)
    IN /\ r.ok
       /\ hm = r.m
       /\ hprev = r.m
       /\ hops = <<>>
       /\ hret = TRUE
       /\ hstart = s0
       /\ sn = NoGame
       /\ tg = NoGame
       /\ bg = NoRegistry

\* test code calls fsm_process_event(&fsm, e)
HProcessEvent ==
  /\ Len(hops) < MaxOps
  /\ \E e \in HEvents :
       LET m0 == [hm EXCEPT !.log = <<>>]
           r  == fsm_process_event(m0, e)
       IN /\ hm' = r.m
          /\ hret' = r.ret
          /\ hprev' = m0
          /\ hops' = Append(hops, [op |-> "event", event |-> e])
  /\ UNCHANGED hstart

\* test code calls fsm_update(&fsm)
HUpdate ==
  /\ Len(hops) < MaxOps
  /\ LET m0 == [hm EXCEPT !.log = <<>>]
     IN /\ hm' = fsm_update(m0)
        /\ hprev' = m0
  /\ hret' = FALSE
  /\ hops' = Append(hops, [op |-> "update", event |-> FSM_EVENT_NONE])
  /\ UNCHANGED hstart

hvars == <<hm, hprev, hops, hret, hstart>>

vars == <<hm, hprev, hops, hret, hstart, sn, tg, bg>>

NextFsm ==
  \/ HProcessEvent /\ UNCHANGED <<sn, tg, bg>>
  \/ HUpdate /\ UNCHANGED <<sn, tg, bg>>

SpecFsm == HInit /\ [][NextFsm]_vars

----------------------------------------------------------------------------
(* Snake: game logic and the entry points of the game contract *)

getState(s) == from_fsm_state(s.fsm.current)

processEvent_(s, ev) ==
  CASE ev = "NONE"       -> s
    [] ev = "MOVE_LEFT"  -> [s EXCEPT !.next_direction_ = "LEFT"]
    [] ev = "MOVE_RIGHT" -> [s EXCEPT !.next_direction_ = "RIGHT"]
    [] ev = "MOVE_UP"    -> [s EXCEPT !.next_direction_ = "UP"]
    [] ev = "MOVE_DOWN"  -> [s EXCEPT !.next_direction_ = "DOWN"]
    [] OTHER             -> fsm_process_event(s, to_fsm_event(ev)).m

mapActionToEvent_(action) ==
  CASE action = "Start"     -> "START"
    [] action = "Pause"     -> "PAUSE_TOGGLE"
    [] action = "Terminate" -> "TERMINATE"
    [] action = "Left"      -> "MOVE_LEFT"
    [] action = "Right"     -> "MOVE_RIGHT"
    [] action = "Up"        -> "MOVE_UP"
    [] action = "Down"      -> "MOVE_DOWN"
    [] OTHER                -> "NONE"

\* the score file is overwritten with the in-memory high score
saveHighScore_(s) == [s EXCEPT !.score_file = s.info.high_score]

loadHighScore_(s) == [s EXCEPT !.info.high_score = s.score_file]

checkCollision_walls_only(s, head) ==
  \/ head.x < 0 \/ head.x >= SNAKE_FIELD_COLS
  \/ head.y < 0 \/ head.y >= SNAKE_FIELD_ROWS

checkCollision_(s, head) ==
  \/ head.x < 0 \/ head.x >= SNAKE_FIELD_COLS
  \/ head.y < 0 \/ head.y >= SNAKE_FIELD_ROWS
  \/ \E i \in 2..Len(s.body_) : s.body_[i].x = head.x /\ s.body_[i].y = head.y

handleCollision_(s) == processEvent_(s, "TERMINATE")

checkAppleEaten_(s, head) == head.x = s.apple_x_ /\ head.y = s.apple_y_

eatApple_keep_record(s) ==
  spawnApple_([s EXCEPT !.info.score = @ + 1])

eatApple_(s) ==
  LET s1 == [s EXCEPT !.info.score = @ + 1]
      s2 == IF s1.info.score > s1.info.high_score
            THEN [s1 EXCEPT !.info.high_score = s1.info.score]
            ELSE s1
  IN spawnApple_(s2)

updateScore_no_floor(s) ==
  LET level == 1 + (s.info.score \div 10)
  IN [s EXCEPT !.info.level = level, !.info.speed = 100 - (level * 5)]

updateScore_(s) ==
  LET level == 1 + (s.info.score \div 10)
      speed == 100 - (level * 5)
  IN [s EXCEPT !.info.level = level,
               !.info.speed = IF speed < 50 THEN 50 ELSE speed]

updateOccupiedCells_(s) ==
  LET s1 == IF Len(s.body_) > 1
            THEN [s EXCEPT !.occupied_cells_ = @ \ {CellKey(s.body_[Len(s.body_)])}]
            ELSE s
  IN [s1 EXCEPT !.occupied_cells_ = @ \cup {CellKey(s.body_[1])}]

IsReversal_never(next, cur) == FALSE

IsReversal(next, cur) ==
  \/ next = "UP" /\ cur = "DOWN"
  \/ next = "DOWN" /\ cur = "UP"
  \/ next = "LEFT" /\ cur = "RIGHT"
  \/ next = "RIGHT" /\ cur = "LEFT"

StepHead_up_is_down(head, dir) ==
  CASE dir = "UP"    -> SnakeSegment(head.x, head.y + 1)
    [] dir = "DOWN"  -> SnakeSegment(head.x, head.y + 1)
    [] dir = "LEFT"  -> SnakeSegment(head.x - 1, head.y)
    [] dir = "RIGHT" -> SnakeSegment(head.x + 1, head.y)

\* the head moved one cell in direction dir
StepHead(head, dir) ==
  CASE dir = "UP"    -> SnakeSegment(head.x, head.y - 1)
    [] dir = "DOWN"  -> SnakeSegment(head.x, head.y + 1)
    [] dir = "LEFT"  -> SnakeSegment(head.x - 1, head.y)
    [] dir = "RIGHT" -> SnakeSegment(head.x + 1, head.y)

move_(s) ==
  IF s.body_ = <<>> THEN s ELSE
  LET s1 == IF ~IsReversal(s.next_direction_, s.direction_)
            THEN [s EXCEPT !.direction_ = s.next_direction_]
            ELSE s
      head == StepHead(s1.body_[1], s1.direction_)
  IN IF checkCollision_(s1, head) THEN handleCollision_(s1) ELSE
     LET ate == checkAppleEaten_(s1, head)
         s2 == [s1 EXCEPT !.body_ = <<head>> \o @]
         s3 == IF ~ate
               THEN [s2 EXCEPT !.body_ = SubSeq(@, 1, Len(@) - 1)]
               ELSE updateScore_(eatApple_(s2))
         s4 == updateOccupiedCells_(s3)
     IN IF Len(s4.body_) >= SNAKE_MAX_LENGTH
        THEN LET s5 == IF s4.info.score > s4.info.high_score
                       THEN saveHighScore_([s4 EXCEPT !.info.high_score = s4.info.score])
                       ELSE s4
             IN processEvent_(s5, "TERMINATE")
        ELSE s4

snake_handle_input(s, action) ==
  LET event == mapActionToEvent_(action)
  IN IF event # "NONE" THEN processEvent_(s, event) ELSE s

snake_update_while_paused(s) ==
  LET s1 == IF getState(s) \in {"MOVE", "PAUSED"} THEN move_(s) ELSE s
  IN IF getState(s1) = "GAME_OVER" /\ ~s1.game_over_handled_
     THEN LET s2 == [s1 EXCEPT !.game_over_timer_ = @ + 1]
          IN IF s2.game_over_timer_ >= GAME_OVER_DELAY_TICKS
             THEN [processEvent_(s2, "AUTO_RESET") EXCEPT !.game_over_handled_ = TRUE]
             ELSE s2
     ELSE s1

snake_update(s) ==
  LET s1 == IF getState(s) = "MOVE" THEN move_(s) ELSE s
  IN IF getState(s1) = "GAME_OVER" /\ ~s1.game_over_handled_
     THEN LET s2 == [s1 EXCEPT !.game_over_timer_ = @ + 1]
          IN IF s2.game_over_timer_ >= GAME_OVER_DELAY_TICKS
             THEN [processEvent_(s2, "AUTO_RESET") EXCEPT !.game_over_handled_ = TRUE]
             ELSE s2
     ELSE s1

\* the field buffer get_info hands out: apple first, then head, then body
updateFieldState_(s) ==
  [y \in 0..(SNAKE_FIELD_ROWS - 1) |->
    [x \in 0..(SNAKE_FIELD_COLS - 1) |->
       IF \E i \in 2..Len(s.body_) : s.body_[i] = SnakeSegment(x, y)
       THEN SNAKE_BODY_CELL
       ELSE IF s.body_ # <<>> /\ s.body_[1] = SnakeSegment(x, y)
       THEN SNAKE_HEAD_CELL
       ELSE IF s.apple_x_ = x /\ s.apple_y_ = y
       THEN SNAKE_APPLE_CELL
       ELSE 0]]

\* the object with the buffer info_.field written; no other operation reads
\* the buffer, so the stored state does not carry it
WithField(s, field) ==
  [s EXCEPT !.info = [k \in (DOMAIN s.info) \cup {"field"} |->
                        IF k = "field" THEN field ELSE s.info[k]]]

snake_get_info_ticking(s) ==
  LET g == snake_update(s)
  IN [game |-> WithField(g, updateFieldState_(g)),
      info |-> WithField(g, updateFieldState_(g)).info]

\* returns the object after the call and the snapshot the pointer leads to
snake_get_info(s) ==
  LET g == WithField(s, updateFieldState_(s))
  IN [game |-> g, info |-> g.info]

\* SnakeGame::SnakeGame(): initialize_, loadHighScore_, fsm_init
SnakeNew(file) ==
  LET raw == [alive |-> TRUE,
              fsm |-> [transitions |-> <<>>, count |-> 0, current |-> 0,
                       processing |-> FALSE],
              info |-> [score |-> 0, high_score |-> 0, level |-> 0,
                        speed |-> 0, pause |-> 0],
              direction_ |-> "RIGHT", next_direction_ |-> "RIGHT",
              game_over_handled_ |-> FALSE, game_over_timer_ |-> 0,
              apple_x_ |-> 0, apple_y_ |-> 0,
              body_ |-> <<>>, occupied_cells_ |-> {},
              rnd |-> 0, rnd_used |-> FALSE, score_file |-> file]
      s1 == loadHighScore_(initialize_(raw))
  IN fsm_init(s1, transitions_, Len(transitions_), to_fsm_state("INIT")).m

UserActions == {"Start", "Pause", "Terminate", "Left", "Right", "Up", "Down", "Action"}

SnakeInit ==
  /\ \E f \in 0..MaxStoredScore : sn = SnakeNew(f)
  /\ hm = HBlank /\ hprev = HBlank /\ hops = <<>> /\ hret = FALSE /\ hstart = 0
  /\ tg = NoGame
  /\ bg = NoRegistry

\* the instance before a call, with the generator's next number set to r
Drawing(s, r) == [s EXCEPT !.rnd = r, !.rnd_used = FALSE]
Drawn(s) == [s EXCEPT !.rnd = 0, !.rnd_used = FALSE]
\* r ranges over the generator's outputs when the call draws a number
Draws(used) == IF used THEN SnakeCells ELSE {0}

\* snake_handle_input(game, action, hold)
SnakeInput ==
  /\ sn.alive
  /\ \E action \in UserActions :
       \E r \in Draws(snake_handle_input(Drawing(sn, 0), action).rnd_used) :
         sn' = Drawn(snake_handle_input(Drawing(sn, r), action))

\* snake_update(game)
SnakeUpdate ==
  /\ sn.alive
  /\ \E r \in Draws(snake_update(Drawing(sn, 0)).rnd_used) :
       sn' = Drawn(snake_update(Drawing(sn, r)))

\* snake_destroy(game): the destructor saves the high score
SnakeDestroy ==
  /\ sn.alive
  /\ sn' = [alive |-> FALSE, score_file |-> sn.info.high_score]

NextSnake ==
  \/ SnakeInput /\ UNCHANGED <<hvars, tg, bg>>
  \/ SnakeUpdate /\ UNCHANGED <<hvars, tg, bg>>
  \/ SnakeDestroy /\ UNCHANGED <<hvars, tg, bg>>

SpecSnake == SnakeInit /\ [][NextSnake]_vars

----------------------------------------------------------------------------
(* Snake: one round whose score stands where the full board lets it stand *)

\* the highest score a drawn round begins with
MaxPriorScore == 99

\* none, one short of level 2, and at the bound
SnakePriorScores == {0, 9, MaxPriorScore}

\* a round just started, with the score of `score` apples eaten before
SnakeScored(score, r) ==
  LET s == snake_handle_input(Drawing(SnakeNew(0), r), "Start")
  IN IF score = 0 THEN s
     ELSE updateScore_([s EXCEPT !.info.score = score, !.info.high_score = score])

SnakeRoundInit ==
  /\ \E score \in SnakePriorScores, r \in SnakeCells :
       sn = Drawn(SnakeScored(score, r))
  /\ hm = HBlank /\ hprev = HBlank /\ hops = <<>> /\ hret = FALSE /\ hstart = 0
  /\ tg = NoGame
  /\ bg = NoRegistry

SnakeRoundLive == sn.alive /\ getState(sn) \in {"MOVE", "PAUSED"}

\* snake_handle_input(game, action, hold) during the round
SnakeRoundInput ==
  /\ SnakeRoundLive
  /\ \E action \in UserActions :
       \E r \in Draws(snake_handle_input(Drawing(sn, 0), action).rnd_used) :
         sn' = Drawn(snake_handle_input(Drawing(sn, r), action))

\* snake_update(game) during the round
SnakeRoundUpdate ==
  /\ SnakeRoundLive
  /\ \E r \in Draws(snake_update(Drawing(sn, 0)).rnd_used) :
       sn' = Drawn(snake_update(Drawing(sn, r)))

NextSnakeRound ==
  \/ SnakeRoundInput /\ UNCHANGED <<hvars, tg, bg>>
  \/ SnakeRoundUpdate /\ UNCHANGED <<hvars, tg, bg>>

SpecSnakeRound == SnakeRoundInit /\ [][NextSnakeRound]_vars

----------------------------------------------------------------------------
(* Tetris: dispatch and the entry points of the game contract *)

tetris_map_action_to_event(action, hold) ==
  CASE action = "Start"     -> "START"
    [] action = "Left"      -> "MOVE_LEFT"
    [] action = "Right"     -> "MOVE_RIGHT"
    [] action = "Down"      -> IF hold THEN "DROP" ELSE "MOVE_DOWN"
    [] action = "Action"    -> "ROTATE"
    [] action = "Pause"     -> "PAUSE_TOGGLE"
    [] action = "Terminate" -> "TERMINATE"
    [] OTHER                -> "NONE"

RECURSIVE DropToFloor(_)
\* `while (tetris_move_piece(game, 0, 1)) {}`
DropToFloor(g) ==
  LET r == tetris_move_piece(g, 0, 1)
  IN IF r.ok THEN DropToFloor(r.g) ELSE g

tetris_process_fall_input_one_row(g, event) ==
  CASE event = "MOVE_LEFT"  -> [g |-> tetris_move_piece(g, -1, 0).g, event |-> "NONE"]
    [] event = "MOVE_RIGHT" -> [g |-> tetris_move_piece(g, 1, 0).g, event |-> "NONE"]
    [] event = "ROTATE"     -> [g |-> tetris_rotate_piece(g, 1).g, event |-> "NONE"]
    [] event \in {"TICK", "MOVE_DOWN"} ->
         LET r == tetris_move_piece(g, 0, 1)
         IN [g |-> r.g, event |-> IF r.ok THEN "NONE" ELSE "TICK"]
    [] event = "DROP"       -> [g |-> tetris_move_piece(g, 0, 1).g, event |-> "TICK"]
    [] OTHER                -> [g |-> g, event |-> event]

\* returns the game and the event left for the FSM
tetris_process_fall_input(g, event) ==
  CASE event = "MOVE_LEFT"  -> [g |-> tetris_move_piece(g, -1, 0).g, event |-> "NONE"]
    [] event = "MOVE_RIGHT" -> [g |-> tetris_move_piece(g, 1, 0).g, event |-> "NONE"]
    [] event = "ROTATE"     -> [g |-> tetris_rotate_piece(g, 1).g, event |-> "NONE"]
    [] event \in {"TICK", "MOVE_DOWN"} ->
         LET r == tetris_move_piece(g, 0, 1)
         IN [g |-> r.g, event |-> IF r.ok THEN "NONE" ELSE "TICK"]
    [] event = "DROP"       -> [g |-> DropToFloor(g), event |-> "TICK"]
    [] OTHER                -> [g |-> g, event |-> event]

tetris_fsm_dispatch(g, event) ==
  LET fall == IF TStateName(g.fsm.current) = "FALL"
              THEN tetris_process_fall_input(g, event)
              ELSE [g |-> g, event |-> event]
  IN IF TStateName(g.fsm.current) = "FALL" /\ fall.event = "NONE"
     THEN fall.g
     ELSE LET g1 == fsm_process_event(fall.g, TEvent(fall.event)).m
          IN IF TStateName(g1.fsm.current) = "SPAWN" /\ g1.game_over
             THEN fsm_update(g1)
             ELSE g1

tetris_handle_input(g, action, hold) ==
  LET evt == tetris_map_action_to_event(action, hold)
  IN IF evt = "NONE" THEN g ELSE tetris_fsm_dispatch(g, evt)

tetris_update(g) == tetris_fsm_dispatch(g, "TICK")

\* the field buffer tetris_get_info hands out
tetris_update_info_view(g) ==
  IF \/ g.game_over \/ g.info.pause # 0
     \/ TStateName(g.fsm.current) \in {"INIT", "GAME_OVER"}
  THEN g.field_storage
  ELSE [r \in TRows |-> [c \in TCols |->
          IF <<r, c>> \in PieceCells(g.current) THEN 1 ELSE g.field_storage[r][c]]]

tetris_load_high_score(g) ==
  [g EXCEPT !.high_score = g.score_file, !.info.high_score = g.score_file]

tetris_save_high_score(g) == [g EXCEPT !.score_file = g.high_score]

tetris_game_reset(g) ==
  fsm_init(on_enter_init(g), tetris_transitions, Len(tetris_transitions),
           TState("INIT")).m

\* tetris_create: calloc, the matrices, the stored high score, reset
tetris_game_create(file, rnd) ==
  LET raw == [alive |-> TRUE, crashed |-> FALSE,
              fsm |-> [transitions |-> <<>>, count |-> 0, current |-> 0,
                       processing |-> FALSE],
              info |-> [score |-> 0, high_score |-> 0, level |-> 0,
                        speed |-> 0, pause |-> 0],
              field_storage |-> EmptyField,
              current |-> TetrisPiece(0, 0, 0, 0),
              next |-> TetrisPiece(0, 0, 0, 0),
              high_score |-> 0, lines_cleared |-> 0,
              game_over |-> FALSE, started |-> FALSE,
              rnd |-> rnd, rnd_used |-> FALSE,
              ub |-> [abort |-> TRUE, pad |-> 0], ub_used |-> FALSE,
              score_file |-> file]
  IN tetris_game_reset(tetris_load_high_score(raw))

\* what the two rand() calls of one tetris_generate_next_piece can yield
TRandoms == [type : 0..MaxRand, rotation : 0..MaxRand]
\* what an out-of-bounds memmove can do
TUndefined == {[abort |-> TRUE, pad |-> 0]}
              \cup {[abort |-> FALSE, pad |-> p] : p \in 0..MaxHeapPad}
TNoRandom == [type |-> 0, rotation |-> 0]
TNoUndefined == [abort |-> TRUE, pad |-> 0]

TDrawing(g, r, u) == [g EXCEPT !.rnd = r, !.rnd_used = FALSE,
                               !.ub = u, !.ub_used = FALSE]
TDrawn(g) == TDrawing(g, TNoRandom, TNoUndefined)
TRandomDraws(used) == IF used THEN TRandoms ELSE {TNoRandom}
TUndefinedDraws(used) == IF used THEN TUndefined ELSE {TNoUndefined}

TetrisInit ==
  /\ \E f \in 0..MaxStoredScore, r \in TRandoms :
       tg = TDrawn(tetris_game_create(f, r))
  /\ hm = HBlank /\ hprev = HBlank /\ hops = <<>> /\ hret = FALSE /\ hstart = 0
  /\ sn = NoGame
  /\ bg = NoRegistry

TetrisLive == tg.alive /\ ~tg.crashed /\ tg.lines_cleared < MaxLines

\* tetris_handle_input(game, action, hold)
TetrisInput ==
  /\ TetrisLive
  /\ \E action \in UserActions, hold \in BOOLEAN :
       LET probe == tetris_handle_input(TDrawing(tg, TNoRandom, TNoUndefined), action, hold)
       IN \E r \in TRandomDraws(probe.rnd_used), u \in TUndefinedDraws(probe.ub_used) :
            tg' = TDrawn(tetris_handle_input(TDrawing(tg, r, u), action, hold))

\* tetris_update(game)
TetrisUpdate ==
  /\ TetrisLive
  /\ LET probe == tetris_update(TDrawing(tg, TNoRandom, TNoUndefined))
     IN \E r \in TRandomDraws(probe.rnd_used), u \in TUndefinedDraws(probe.ub_used) :
          tg' = TDrawn(tetris_update(TDrawing(tg, r, u)))

\* tetris_destroy(game): the high score is saved
TetrisDestroy ==
  /\ tg.alive /\ ~tg.crashed
  /\ tg' = [alive |-> FALSE, crashed |-> FALSE, score_file |-> tg.high_score,
            lines_cleared |-> tg.lines_cleared]

NextTetris ==
  \/ TetrisInput /\ UNCHANGED <<hvars, sn, bg>>
  \/ TetrisUpdate /\ UNCHANGED <<hvars, sn, bg>>
  \/ TetrisDestroy /\ UNCHANGED <<hvars, sn, bg>>

SpecTetris == TetrisInit /\ [][NextTetris]_vars

----------------------------------------------------------------------------
(* Tetris: one falling piece over a drawn field, up to its lock *)

\* the lines a drawn game has cleared before, one row at a time
MaxPriorLines == 99
\* how many calls a restart after a game over may take
MaxRestartCalls == 3
\* how many rows above the top edge a drawn piece may begin
MaxAbove == 3

\* the bottom h rows locked in the columns left of column c
StepField(h, c) ==
  [r \in TRows |-> [col \in TCols |->
     IF r >= TETRIS_FIELD_ROWS - h /\ col < c THEN 1 ELSE 0]]

TetrisFields ==
  {StepField(h, c) : h \in 0..(TETRIS_FIELD_ROWS - 1), c \in TCols}

\* the column tetris_generate_next_piece gives every piece
TetrisSpawnX == TETRIS_FIELD_COLS \div 2 - 2

\* every piece in its spawn column, at any height
TetrisPieces ==
  {TetrisPiece(t, rot, TetrisSpawnX, y) :
     t \in 0..(TETRIS_NUM_PIECES - 1), rot \in 0..(TETRIS_ROTATIONS - 1),
     y \in (0 - MaxAbove)..(TETRIS_FIELD_ROWS - 1)}

\* none, or so many that the next lock can reach the tenth line
TetrisPriorLines == {0} \cup ((MaxPriorLines - 3)..MaxPriorLines)

\* a game in FALL with `piece` over `field` after `lines` single-row clears
TetrisFalling(field, piece, lines) ==
  LET g == tetris_game_create(0, TNoRandom)
      level == 1 + lines \div 10
  IN [g EXCEPT !.fsm.current = TState("FALL"),
               !.field_storage = field,
               !.current = piece,
               !.lines_cleared = lines,
               !.high_score = 100 * lines,
               !.info.score = 100 * lines,
               !.info.high_score = 100 * lines,
               !.info.level = level,
               !.info.speed = TETRIS_INITIAL_SPEED + level - 1]

TetrisFallInit ==
  /\ \E field \in TetrisFields, piece \in TetrisPieces :
       /\ ~tetris_check_collision([field_storage |-> field], piece)
       /\ \E lines \in TetrisPriorLines :
            tg = TDrawn(TetrisFalling(field, piece, lines))
  /\ hm = HBlank /\ hprev = HBlank /\ hops = <<>> /\ hret = FALSE /\ hstart = 0
  /\ sn = NoGame
  /\ bg = NoRegistry

TetrisFallLive ==
  tg.alive /\ ~tg.crashed /\ TStateName(tg.fsm.current) = "FALL"

\* tetris_handle_input(game, action, hold) while the piece falls
TetrisFallInput ==
  /\ TetrisFallLive
  /\ \E action \in UserActions, hold \in BOOLEAN :
       LET probe == tetris_handle_input(TDrawing(tg, TNoRandom, TNoUndefined), action, hold)
       IN \E r \in TRandomDraws(probe.rnd_used), u \in TUndefinedDraws(probe.ub_used) :
            tg' = TDrawn(tetris_handle_input(TDrawing(tg, r, u), action, hold))

\* tetris_update(game) while the piece falls
TetrisFallUpdate ==
  /\ TetrisFallLive
  /\ LET probe == tetris_update(TDrawing(tg, TNoRandom, TNoUndefined))
     IN \E r \in TRandomDraws(probe.rnd_used), u \in TUndefinedDraws(probe.ub_used) :
          tg' = TDrawn(tetris_update(TDrawing(tg, r, u)))

NextTetrisFall ==
  \/ TetrisFallInput /\ UNCHANGED <<hvars, sn, bg>>
  \/ TetrisFallUpdate /\ UNCHANGED <<hvars, sn, bg>>

SpecTetrisFall == TetrisFallInit /\ [][NextTetrisFall]_vars

----------------------------------------------------------------------------
(* Game registry and the active game: s21_bgame.c with the test contracts *)

BG_MAX_GAMES == 8
GAME_UNDEFINED == 0
\* game ids offered to the registry are 0..MaxGameId
MaxGameId == 1
\* addresses malloc can hand out are 1..MaxAddr; 0 is the null pointer
MaxAddr == 2
\* update() calls one test instance gets
MaxTestTicks == 1

TEST_GAME_INITIAL_ID == 42
TEST_INFO_SPEED == 500

BgFunctions == <<"create", "destroy", "input", "update", "get_info">>

\* a GameInterface_t whose functions are the test stubs, `missing` left NULL
TestInterface(id, missing) ==
  [id       |-> id,
   create   |-> IF missing = "create" THEN "NULL" ELSE "test_create",
   destroy  |-> IF missing = "destroy" THEN "NULL" ELSE "test_destroy",
   input    |-> IF missing = "input" THEN "NULL" ELSE "test_input",
   update   |-> IF missing = "update" THEN "NULL" ELSE "test_update",
   get_info |-> IF missing = "get_info" THEN "NULL" ELSE "test_get_info"]

\* memset(.., 0, ..): id 0, every pointer NULL, registered false
ZeroInterface ==
  [id |-> 0, create |-> "NULL", destroy |-> "NULL", input |-> "NULL",
   update |-> "NULL", get_info |-> "NULL"]

ZeroEntry == [iface |-> ZeroInterface, registered |-> FALSE]

BgSlots == 1..BG_MAX_GAMES

\* GameInfo_t info = {0}
ZeroInfo == [score |-> 0, high_score |-> 0, level |-> 0, speed |-> 0,
             pause |-> 0, field |-> "NULL", next |-> "NULL"]

\* a call of the contract function fn of registry slot `slot`
BgLog(b, fn, slot, instance, action, hold) ==
  [b EXCEPT !.calls = Append(@, [fn |-> fn, slot |-> slot, instance |-> instance,
                                 action |-> action, hold |-> hold])]

\* malloc gives the address m (0 when it fails); id = 42.  An allocator
\* never hands out a block that is in use: alloc_clash marks such an m as no
\* outcome of this call
test_create(b, m) ==
  IF m = 0 THEN [b |-> b, p |-> 0]
  ELSE IF m \in b.live THEN [b |-> [b EXCEPT !.alloc_clash = TRUE], p |-> m]
  ELSE [b |-> [b EXCEPT !.heap[m] = TEST_GAME_INITIAL_ID, !.live = @ \cup {m}],
        p |-> m]

\* free(game); freeing what is not allocated is recorded in bad_free
test_destroy(b, p) ==
  IF p = 0 THEN b
  ELSE IF p \in b.live
  THEN [b EXCEPT !.live = @ \ {p}, !.heap[p] = 0]
  ELSE [b EXCEPT !.bad_free = TRUE]

test_update(b, p) == [b EXCEPT !.heap[p] = @ + 1]

test_get_info(b, p) ==
  [score |-> b.heap[p], high_score |-> 0, level |-> 1,
   speed |-> TEST_INFO_SPEED, pause |-> 0, field |-> "field_rows",
   next |-> "next_rows"]

bg_init_registry(b) ==
  IF b.g_registry_initialized THEN b
  ELSE [b EXCEPT !.g_registry = [i \in BgSlots |-> ZeroEntry],
                 !.g_registry_initialized = TRUE]

\* the registry after bg_register_game(iface) with no free slot taken
bg_register_game_overwrite(b, iface) ==
  LET b1 == bg_init_registry(b)
      free == {i \in BgSlots : ~b1.g_registry[i].registered}
      slot == IF free # {} THEN Min(free) ELSE BG_MAX_GAMES
  IN IF \E i \in BgSlots : /\ b1.g_registry[i].registered
                           /\ b1.g_registry[i].iface.id = iface.id
     THEN [b1 EXCEPT !.g_registry[Min({i \in BgSlots :
                        /\ b1.g_registry[i].registered
                        /\ b1.g_registry[i].iface.id = iface.id})].iface = iface]
     ELSE [b1 EXCEPT !.g_registry[slot] = [iface |-> iface, registered |-> TRUE]]

bg_register_game(b, iface) ==
  LET b1 == bg_init_registry(b)
      free == {i \in BgSlots : ~b1.g_registry[i].registered}
  IN IF \E i \in BgSlots : /\ b1.g_registry[i].registered
                           /\ b1.g_registry[i].iface.id = iface.id
     THEN b1
     ELSE IF free # {}
     THEN [b1 EXCEPT !.g_registry[Min(free)] =
                       [iface |-> iface, registered |-> TRUE]]
     ELSE b1

\* the slot of the entry found (the pointer &g_registry[i].iface), 0 for NULL
bg_get_game(b, id) ==
  LET b1 == bg_init_registry(b)
      found == {i \in BgSlots : /\ b1.g_registry[i].registered
                                /\ b1.g_registry[i].iface.id = id}
  IN [b |-> b1, slot |-> IF found # {} THEN Min(found) ELSE 0]

BgInterfaceOf(b, slot) == b.g_registry[slot].iface

\* iface->create(): the stub, or a call through a null pointer
BgCreate(b, slot, m) ==
  LET b1 == BgLog(b, "create", slot, 0, "none", FALSE)
  IN IF BgInterfaceOf(b, slot).create = "NULL"
     THEN [b |-> [b1 EXCEPT !.crashed = TRUE], p |-> 0]
     ELSE test_create(b1, m)

\* g_current.iface->destroy(g_current.instance)
BgDestroy(b) ==
  LET b1 == BgLog(b, "destroy", b.g_current.iface, b.g_current.instance,
                  "none", FALSE)
  IN IF BgInterfaceOf(b, b.g_current.iface).destroy = "NULL"
     THEN [b1 EXCEPT !.crashed = TRUE]
     ELSE test_destroy(b1, b.g_current.instance)

BgAlreadyActive_never(b, id) == FALSE

\* `g_current.instance && g_current.iface && g_current.iface->id == id`
BgAlreadyActive(b, id) ==
  /\ b.g_current.instance # 0
  /\ b.g_current.iface # 0
  /\ BgInterfaceOf(b, b.g_current.iface).id = id

\* the prior instance is dropped without its destroy being called
BgDestroyCurrent_forget(b) ==
  IF b.g_current.instance # 0 /\ b.g_current.iface # 0
  THEN [b EXCEPT !.g_current.instance = 0]
  ELSE b

\* destroy the current instance, if there is one
BgDestroyCurrent(b) ==
  IF b.g_current.instance # 0 /\ b.g_current.iface # 0
  THEN [BgDestroy(b) EXCEPT !.g_current.instance = 0]
  ELSE b

\* a failed create leaves g_current.iface as it was
BgCreateAndSwap_keep_iface(b, slot, m) ==
  LET c == BgCreate(b, slot, m)
  IN IF c.p = 0
     THEN [b |-> c.b, ret |-> FALSE, created |-> TRUE]
     ELSE [b |-> [c.b EXCEPT !.g_current = [iface |-> slot, instance |-> c.p]],
           ret |-> TRUE, created |-> TRUE]

\* create the new instance and make it current
BgCreateAndSwap(b, slot, m) ==
  LET c == BgCreate(b, slot, m)
  IN IF c.p = 0
     THEN [b |-> [c.b EXCEPT !.g_current.iface = 0], ret |-> FALSE,
           created |-> TRUE]
     ELSE [b |-> [c.b EXCEPT !.g_current = [iface |-> slot, instance |-> c.p]],
           ret |-> TRUE, created |-> TRUE]

\* m is the address the allocator has for a create() made by this call;
\* `created` tells whether create() was called
bg_switch_game(b, id, m) ==
  LET g == bg_get_game(b, id)
      iface == BgInterfaceOf(g.b, g.slot)
  IN IF g.slot = 0 \/ iface.id = GAME_UNDEFINED
     THEN [b |-> g.b, ret |-> FALSE, created |-> FALSE]
     ELSE IF \/ iface.create = "NULL" \/ iface.destroy = "NULL"
             \/ iface.get_info = "NULL" \/ iface.input = "NULL"
             \/ iface.update = "NULL"
     THEN [b |-> g.b, ret |-> FALSE, created |-> FALSE]
     ELSE IF BgAlreadyActive(g.b, id)
     THEN [b |-> g.b, ret |-> TRUE, created |-> FALSE]
     ELSE BgCreateAndSwap(BgDestroyCurrent(g.b), g.slot, m)

bg_get_current_game(b) == b.g_current.iface

bg_get_current_instance(b) == b.g_current.instance

\* the input stub checks its arguments and does nothing else
userInput(b, action, hold) ==
  IF b.g_current.iface = 0 \/ b.g_current.instance = 0 THEN b
  ELSE LET b1 == BgLog(b, "input", b.g_current.iface, b.g_current.instance,
                       action, hold)
       IN IF BgInterfaceOf(b, b.g_current.iface).input = "NULL"
          THEN [b1 EXCEPT !.crashed = TRUE]
          ELSE b1

\* the snapshot is read before the update is made
updateCurrentState_info_first(b) ==
  IF b.g_current.iface = 0 \/ b.g_current.instance = 0
  THEN [b |-> b, info |-> ZeroInfo]
  ELSE LET p == b.g_current.instance
           b1 == BgLog(b, "get_info", b.g_current.iface, p, "none", FALSE)
           b2 == BgLog(b1, "update", b.g_current.iface, p, "none", FALSE)
       IN [b |-> test_update(b2, p), info |-> test_get_info(b, p)]

\* returns the registry and the GameInfo_t handed back by value
updateCurrentState(b) ==
  IF b.g_current.iface = 0 \/ b.g_current.instance = 0
  THEN [b |-> b, info |-> ZeroInfo]
  ELSE LET iface == BgInterfaceOf(b, b.g_current.iface)
           p == b.g_current.instance
           b1 == BgLog(b, "update", b.g_current.iface, p, "none", FALSE)
           b2 == IF iface.update = "NULL" THEN [b1 EXCEPT !.crashed = TRUE]
                 ELSE test_update(b1, p)
           b3 == BgLog(b2, "get_info", b.g_current.iface, p, "none", FALSE)
       IN IF iface.get_info = "NULL"
          THEN [b |-> [b3 EXCEPT !.crashed = TRUE], info |-> ZeroInfo]
          ELSE [b |-> b3, info |-> test_get_info(b3, p)]

\* the program before its first call: zeroed statics, nothing allocated
BgFresh ==
  [alive |-> TRUE, crashed |-> FALSE,
   g_registry |-> [i \in BgSlots |-> ZeroEntry],
   g_registry_initialized |-> FALSE,
   g_current |-> [iface |-> 0, instance |-> 0],
   heap |-> [p \in 1..MaxAddr |-> 0],
   live |-> {}, bad_free |-> FALSE, alloc_clash |-> FALSE,
   calls |-> <<>>]

\* ids of the games a front end registers at start-up, apart from 0..MaxGameId
StartupId(i) == MaxGameId + i

RECURSIVE BgStarted(_)
\* the registry after the first k start-up registrations
BgStarted(k) ==
  IF k = 0 THEN BgFresh
  ELSE bg_register_game(BgStarted(k - 1), TestInterface(StartupId(k), "none"))

\* a fresh program, and programs with room for all, some or none of the
\* ids 0..MaxGameId
BgStartups == {0} \cup ((BG_MAX_GAMES - MaxGameId - 1)..BG_MAX_GAMES)

BgMissing == {"none", "create", "destroy", "input", "update", "get_info"}
BgGameIds == 0..MaxGameId
BgSwitchIds == BgGameIds \cup {StartupId(1)}
BgInputs == {<<"Left", TRUE>>, <<"Start", FALSE>>}
\* what malloc can return, provided the block is free: an address, or NULL
BgMalloc == 0..MaxAddr
BgAllocations(created) == IF created THEN BgMalloc ELSE {0}

\* the registry as a call finds it, the mock's record of calls empty
BgCalling(b) == [b EXCEPT !.calls = <<>>]

BgInit ==
  /\ \E k \in BgStartups : bg = BgStarted(k)
  /\ hm = HBlank /\ hprev = HBlank /\ hops = <<>> /\ hret = FALSE /\ hstart = 0
  /\ sn = NoGame
  /\ tg = NoGame

BgRunning == bg.alive /\ ~bg.crashed

\* bg_register_game(iface)
BgRegister ==
  /\ BgRunning
  /\ \E id \in BgGameIds, missing \in BgMissing :
       bg' = bg_register_game(BgCalling(bg), TestInterface(id, missing))

\* bg_switch_game(id)
BgSwitch ==
  /\ BgRunning
  /\ \E id \in BgSwitchIds :
       \E m \in BgAllocations(bg_switch_game(BgCalling(bg), id, 0).created) :
         /\ ~bg_switch_game(BgCalling(bg), id, m).b.alloc_clash
         /\ bg' = bg_switch_game(BgCalling(bg), id, m).b

\* userInput(action, hold)
BgUserInput ==
  /\ BgRunning
  /\ \E in \in BgInputs : bg' = userInput(BgCalling(bg), in[1], in[2])

\* updateCurrentState()
BgUpdateCurrentState ==
  /\ BgRunning
  /\ \A p \in bg.live : bg.heap[p] < TEST_GAME_INITIAL_ID + MaxTestTicks
  /\ bg' = updateCurrentState(BgCalling(bg)).b

NextBg ==
  \/ BgRegister /\ UNCHANGED <<hvars, sn, tg>>
  \/ BgSwitch /\ UNCHANGED <<hvars, sn, tg>>
  \/ BgUserInput /\ UNCHANGED <<hvars, sn, tg>>
  \/ BgUpdateCurrentState /\ UNCHANGED <<hvars, sn, tg>>

SpecBg == BgInit /\ [][NextBg]_vars

----------------------------------------------------------------------------
(* Properties of the FSM engine *)

\* indexes of the entries of tbl that match (s, e)
Matches(tbl, s, e) == {i \in DOMAIN tbl : tbl[i].src = s /\ tbl[i].event = e}

\* one step of the reference fold: dst of the lowest matching entry, else stay
FoldStep(tbl, s, e) ==
  IF Matches(tbl, s, e) = {} THEN s ELSE tbl[Min(Matches(tbl, s, e))].dst

RECURSIVE Fold(_, _, _)
Fold(tbl, s, evs) ==
  IF evs = <<>> THEN s ELSE Fold(tbl, FoldStep(tbl, s, Head(evs)), Tail(evs))

HLast == hops[Len(hops)]
HOnlyEvents == \A i \in DOMAIN hops : hops[i].op = "event"
HEventSeq == [i \in DOMAIN hops |-> hops[i].event]
HTable == hm.fsm.transitions
\* entries matching the last call, seen from the state before it
HLastMatches == Matches(HTable, hprev.fsm.current, HLast.event)
HNested(rec) == rec.kind \in {"nested_event", "nested_update"}

\* C1: after any sequence of fsm_process_event calls from the start state,
\* `current` is the fold of the events over the table, each step taking the
\* dst of the lowest-index matching entry and staying put without a match.
C1_FoldFirstMatch ==
  HOnlyEvents => hm.fsm.current = Fold(HTable, hstart, HEventSeq)

\* the last event had two matching entries with different destinations
C1_Witness ==
  /\ Len(hops) = MaxOps
  /\ HOnlyEvents
  /\ \E i, j \in HLastMatches : i < j /\ HTable[i].dst # HTable[j].dst

\* C2: a fsm_process_event / fsm_update call made from inside a callback does
\* no transition and runs no callback, the nested fsm_process_event returns
\* false, and the outer transition completes to its own dst and returns true.
C2_NestedCallRejected ==
  Len(hops) > 0 =>
    /\ \A k \in DOMAIN hm.log :
         HNested(hm.log[k]) =>
           /\ hm.log[k].ret = FALSE
           /\ hm.log[k].after = hm.log[k].seen
           /\ hm.log[k].calls = 0
    /\ (HLast.op = "event" /\ HLastMatches # {}) =>
         /\ hret = TRUE
         /\ hm.fsm.current = HTable[Min(HLastMatches)].dst
    /\ hm.fsm.processing = FALSE

\* a callback sent an event that has an entry for the state it was sent in
C2_Witness ==
  /\ Len(hops) > 0
  /\ HLast.op = "event"
  /\ hret = TRUE
  /\ \E k \in DOMAIN hm.log :
       /\ hm.log[k].kind = "nested_event"
       /\ \E i \in DOMAIN HTable :
            /\ HTable[i].src = hm.log[k].seen
            /\ HTable[i].event = hm.log[k].event
            /\ HTable[i].dst # hm.log[k].seen

\* C3: fsm_process_event with no matching entry returns false, runs no
\* callback and leaves `current` and the context unchanged.
C3_UnmatchedEventNoEffect ==
  (Len(hops) > 0 /\ HLast.op = "event" /\ HLastMatches = {}) =>
    /\ hret = FALSE
    /\ hm.log = <<>>
    /\ hm = hprev

\* the unmatched event has an entry, but for another source state
C3_Witness ==
  /\ Len(hops) > 0
  /\ HLast.op = "event"
  /\ HLastMatches = {}
  /\ \E i \in DOMAIN HTable :
       /\ HTable[i].event = HLast.event
       /\ HTable[i].dst # hprev.fsm.current
       /\ HTable[i].on_exit # NULL

\* what the callbacks of entry t must have recorded, in order
ExpectedCalls(t) ==
  (IF t.on_exit = NULL THEN <<>> ELSE <<[tag |-> "exit", seen |-> t.src]>>)
  \o (IF t.on_enter = NULL THEN <<>> ELSE <<[tag |-> "enter", seen |-> t.dst]>>)

HObservedCalls ==
  [k \in DOMAIN hm.log |-> [tag |-> hm.log[k].tag, seen |-> hm.log[k].seen]]

\* C4: on a matched transition the exit callback runs once while `current`
\* is the source, then `current` becomes the destination, then the enter
\* callback runs once observing the destination; a null callback is skipped
\* and a self-transition still runs both callbacks.
C4_ExitSetEnterOrder ==
  (Len(hops) > 0 /\ HLast.op = "event" /\ HLastMatches # {}) =>
    LET t == HTable[Min(HLastMatches)]
    IN /\ HObservedCalls = ExpectedCalls(t)
       /\ hm.fsm.current = t.dst

\* a transition to another state with both callbacks set was taken
C4_Witness ==
  /\ Len(hops) > 0
  /\ HLast.op = "event"
  /\ HLastMatches # {}
  /\ HTable[Min(HLastMatches)].src # HTable[Min(HLastMatches)].dst
  /\ Len(hm.log) = 2

\* C5: fsm_update has the effect of fsm_process_event(FSM_EVENT_NONE) on
\* `current` and on the callbacks run: at most one epsilon transition per
\* call (the first match), none when the state has no epsilon entry.
C5_UpdateIsEpsilonEvent ==
  (Len(hops) > 0 /\ HLast.op = "update") =>
    LET r  == fsm_process_event(hprev, FSM_EVENT_NONE)
        ms == Matches(HTable, hprev.fsm.current, FSM_EVENT_NONE)
    IN /\ hm.fsm.current = r.m.fsm.current
       /\ hm.log = r.m.log
       /\ hm.fsm.current = FoldStep(HTable, hprev.fsm.current, FSM_EVENT_NONE)
       /\ Len(hm.log) <= 2
       /\ ms = {} => hm = hprev

\* the state entered by the update has an epsilon entry of its own further
\* down the table
C5_Witness ==
  /\ Len(hops) > 0
  /\ HLast.op = "update"
  /\ \E i, j \in DOMAIN HTable :
       /\ i = Min(Matches(HTable, hprev.fsm.current, FSM_EVENT_NONE) \cup {i})
       /\ i \in Matches(HTable, hprev.fsm.current, FSM_EVENT_NONE)
       /\ i < j
       /\ HTable[j].src = HTable[i].dst
       /\ HTable[j].event = FSM_EVENT_NONE
       /\ HTable[j].dst # HTable[i].dst

----------------------------------------------------------------------------
(* Properties of the Snake core *)

SnakeBodyCells(s) == {CellKey(s.body_[i]) : i \in DOMAIN s.body_}
SnakeOnField(seg) ==
  /\ seg.x >= 0 /\ seg.x < SNAKE_FIELD_COLS
  /\ seg.y >= 0 /\ seg.y < SNAKE_FIELD_ROWS
\* direction the next movement step uses
EffectiveDirection(s) ==
  IF IsReversal(s.next_direction_, s.direction_) THEN s.direction_
  ELSE s.next_direction_
ProspectiveHead(s) == StepHead(s.body_[1], EffectiveDirection(s))
\* segments whose cells stay occupied during the next step: all of them when
\* the step eats the apple, all but the tail otherwise
RemainingSegments(s) ==
  IF checkAppleEaten_(s, ProspectiveHead(s))
  THEN {s.body_[i] : i \in DOMAIN s.body_}
  ELSE {s.body_[i] : i \in 1..(Len(s.body_) - 1)}
LethalStep(s) ==
  \/ ~SnakeOnField(ProspectiveHead(s))
  \/ ProspectiveHead(s) \in RemainingSegments(s)

\* C7: a movement step ends the round (GAME_OVER, body unchanged) exactly
\* when the prospective head is off the field or on a segment that stays
\* occupied this tick; the cell the tail vacates in a non-eating step is free.
C7_LethalExactlyOnOccupied ==
  [][(SnakeUpdate /\ getState(sn) = "MOVE") =>
       (LethalStep(sn) <=>
          (getState(sn') = "GAME_OVER" /\ sn'.body_ = sn.body_))]_vars

\* C8: the occupancy index is exactly the set of keys of the body cells.
C8_OccupancyEqualsBody ==
  sn.alive => sn.occupied_cells_ = SnakeBodyCells(sn)

\* C9: the apple lies on a cell no body segment occupies (on the tail cell
\* when the board has no free cell), so in MOVE the snapshot shows exactly
\* one apple cell and exactly one head cell.
C9_AppleOnFreeCell ==
  (sn.alive /\ getState(sn) = "MOVE") =>
    LET free == SnakeCells \ SnakeBodyCells(sn)
        apple == SnakeSegment(sn.apple_x_, sn.apple_y_)
        field == updateFieldState_(sn)
        cells(code) == {k \in SnakeCells :
                          field[k \div SNAKE_FIELD_COLS][k % SNAKE_FIELD_COLS] = code}
    IN /\ IF free # {} THEN CellKey(apple) \in free /\ SnakeOnField(apple)
                       ELSE apple = sn.body_[Len(sn.body_)]
       /\ free # {} => Cardinality(cells(SNAKE_APPLE_CELL)) = 1
       /\ Cardinality(cells(SNAKE_HEAD_CELL)) = 1

\* C10: in GAME_OVER, in every round of an instance, an update() call adds
\* to the cooldown counter or, at the threshold, resets the FSM to INIT.
C10_GameOverCoolsDown ==
  (sn.alive /\ getState(sn) = "GAME_OVER") =>
    LET t == snake_update(Drawing(sn, 0))
    IN \/ /\ getState(t) = "GAME_OVER"
          /\ t.game_over_timer_ = sn.game_over_timer_ + 1
          /\ t.game_over_timer_ < GAME_OVER_DELAY_TICKS
       \/ getState(t) = "INIT"

\* C12: once Snake is in GAME_OVER, an update() leaves the field of the
\* snapshot cell for cell as it was; only a Start input may change it.
C12_SnakeGameOverFieldFrozen ==
  (sn.alive /\ getState(sn) = "GAME_OVER") =>
    updateFieldState_(snake_update(Drawing(sn, 0))) = updateFieldState_(sn)

\* the cell one step from `seg` in direction `dir`
SnakeAhead(seg, dir) ==
  [x |-> seg.x + (IF dir = "RIGHT" THEN 1 ELSE IF dir = "LEFT" THEN 0 - 1 ELSE 0),
   y |-> seg.y + (IF dir = "DOWN" THEN 1 ELSE IF dir = "UP" THEN 0 - 1 ELSE 0)]

\* the update ended the round on a collision: GAME_OVER with the body as it was
SnakeDied(s, t) == getState(t) = "GAME_OVER" /\ t.body_ = s.body_

\* C26: in MOVE an update() that does not end the round on a collision puts
\* the head one cell further in the effective direction and every other
\* segment on the cell its predecessor had.  Start leaves the effective
\* direction right whatever directions were given before, and the first
\* tick moves the head by x + 1, y unchanged.
C26_BodyFollowsHead ==
  sn.alive =>
    /\ getState(sn) = "MOVE" =>
         \A r \in SnakeCells :
           LET t == snake_update(Drawing(sn, r))
           IN ~SnakeDied(sn, t) =>
                /\ t.body_[1] = SnakeAhead(sn.body_[1], EffectiveDirection(sn))
                /\ Len(t.body_) \in {Len(sn.body_), Len(sn.body_) + 1}
                /\ \A i \in 2..Len(t.body_) : t.body_[i] = sn.body_[i - 1]
    /\ getState(sn) = "INIT" =>
         \A r \in SnakeCells :
           LET t == snake_handle_input(Drawing(sn, r), "Start")
               u == snake_update(Drawing(t, r))
           IN /\ getState(t) = "MOVE"
              /\ EffectiveDirection(t) = "RIGHT"
              /\ u.body_[1] = [x |-> t.body_[1].x + 1, y |-> t.body_[1].y]

\* the snake has turned: it moves down its column with the body bent
C26_Witness ==
  /\ sn.alive /\ getState(sn) = "MOVE"
  /\ sn.direction_ = "DOWN"
  /\ Len(sn.body_) > SNAKE_INITIAL_LENGTH
  /\ sn.body_[1].x = sn.body_[2].x /\ sn.body_[1].y = sn.body_[2].y + 1
  /\ sn.body_[3].y = sn.body_[2].y

SnakeOpposite(a, b) == {a, b} \in {{"UP", "DOWN"}, {"LEFT", "RIGHT"}}

\* the direction a direction input asks for
SnakeTurns ==
  {<<"Left", "LEFT">>, <<"Right", "RIGHT">>, <<"Up", "UP">>, <<"Down", "DOWN">>}

SnakeMax(a, b) == IF a > b THEN a ELSE b

C29_WinSavesHighScore ==
  (sn.alive /\ getState(sn) = "MOVE") =>
    \A r \in SnakeCells :
      LET t == snake_update(Drawing(sn, r))
      IN (Len(sn.body_) < SNAKE_MAX_LENGTH /\ Len(t.body_) >= SNAKE_MAX_LENGTH) =>
           /\ getState(t) = "GAME_OVER"
           /\ t.score_file = t.info.high_score

\* what get_info must not touch
SnakeCore(s) ==
  [body_ |-> s.body_, occupied_cells_ |-> s.occupied_cells_,
   apple_x_ |-> s.apple_x_, apple_y_ |-> s.apple_y_,
   direction_ |-> s.direction_, next_direction_ |-> s.next_direction_,
   score |-> s.info.score, state |-> getState(s)]

\* C30: in every FSM state get_info leaves body, occupancy index, apple,
\* directions, score and FSM state as they are, and a second get_info right
\* after the first yields the same field, cell for cell.
C30_GetInfoIsPure ==
  sn.alive =>
    LET a == snake_get_info(sn)
        b == snake_get_info(a.game)
    IN /\ SnakeCore(a.game) = SnakeCore(sn)
       /\ SnakeCore(b.game) = SnakeCore(sn)
       /\ b.info.field = a.info.field
       /\ \A k \in DOMAIN sn.info : b.info[k] = sn.info[k]

\* the snapshot shows a snake that has eaten and turned, and the apple
C30_Witness ==
  /\ sn.alive /\ getState(sn) = "MOVE"
  /\ Len(sn.body_) > SNAKE_INITIAL_LENGTH
  /\ sn.direction_ = "UP"
  /\ LET f == snake_get_info(sn).info.field
     IN /\ f[sn.body_[1].y][sn.body_[1].x] = SNAKE_HEAD_CELL
        /\ f[sn.body_[2].y][sn.body_[2].x] = SNAKE_BODY_CELL
        /\ \E y \in 0..(SNAKE_FIELD_ROWS - 1), x \in 0..(SNAKE_FIELD_COLS - 1) :
             f[y][x] = SNAKE_APPLE_CELL

\* C32: the pause flag is 1 exactly in PAUSED.  Pause in MOVE leads to
\* PAUSED with the flag set and nothing else changed; in PAUSED update()
\* changes nothing; Pause in PAUSED gives back the game as it was before
\* the pause, and the update after it moves the head one cell from where it
\* was when paused.
C32_SnakePauseFreezes ==
  sn.alive =>
    /\ sn.info.pause = 1 <=> getState(sn) = "PAUSED"
    /\ sn.info.pause \in {0, 1}
    /\ getState(sn) = "MOVE" =>
         LET p == snake_handle_input(sn, "Pause")
             q == snake_handle_input(p, "Pause")
         IN /\ p = [sn EXCEPT !.fsm.current = to_fsm_state("PAUSED"),
                              !.info.pause = 1]
            /\ snake_update(p) = p
            /\ q = sn
            /\ \A r \in SnakeCells :
                 LET t == snake_update(Drawing(q, r))
                 IN ~SnakeDied(p, t) =>
                      t.body_[1] = SnakeAhead(p.body_[1], EffectiveDirection(p))
    /\ getState(sn) = "PAUSED" =>
         /\ snake_update(sn) = sn
         /\ getState(snake_handle_input(sn, "Pause")) = "MOVE"
         /\ snake_handle_input(sn, "Pause").info.pause = 0
         /\ snake_handle_input(sn, "Pause").body_ = sn.body_

\* the game is paused with a grown snake heading down
C32_Witness ==
  /\ sn.alive /\ getState(sn) = "PAUSED"
  /\ sn.info.pause = 1
  /\ Len(sn.body_) > SNAKE_INITIAL_LENGTH
  /\ sn.direction_ = "DOWN"
  /\ snake_update(sn) = sn

\* C35: in PAUSED a Terminate input ends the round in GAME_OVER and a Pause
\* input resumes it; in GAME_OVER a Start input leaves GAME_OVER; in INIT
\* only Start changes the FSM state.
C35_SnakeInputsPerState ==
  sn.alive =>
    /\ getState(sn) = "PAUSED" =>
         /\ getState(snake_handle_input(sn, "Terminate")) = "GAME_OVER"
         /\ getState(snake_handle_input(sn, "Pause")) = "MOVE"
    /\ getState(sn) = "GAME_OVER" =>
         getState(snake_handle_input(sn, "Start")) # "GAME_OVER"
    /\ getState(sn) = "INIT" =>
         /\ getState(snake_handle_input(sn, "Start")) # "INIT"
         /\ \A a \in UserActions \ {"Start"} :
              getState(snake_handle_input(sn, a)) = "INIT"

\* every call of the game contract on a running round, for any apple draw
SnakeCalls(s) ==
  {snake_update(Drawing(s, r)) : r \in SnakeCells}
    \cup {snake_handle_input(s, a) : a \in UserActions}

\* C37: in MOVE, PAUSED and GAME_OVER every segment of the body is on the
\* field, no two segments share a cell, the body has at least the initial
\* length, and no call leaves a shorter body unless it begins a new round.
C37_SnakeBodyWellFormed ==
  (sn.alive /\ getState(sn) \in {"MOVE", "PAUSED", "GAME_OVER"}) =>
    /\ \A i \in DOMAIN sn.body_ : SnakeOnField(sn.body_[i])
    /\ \A i, j \in DOMAIN sn.body_ : i # j => sn.body_[i] # sn.body_[j]
    /\ Len(sn.body_) >= SNAKE_INITIAL_LENGTH
    /\ \A t \in SnakeCalls(sn) :
         getState(t) # "INIT" => Len(t.body_) >= Len(sn.body_)

\* a grown snake whose head has its own body in the next cell ahead
C37_Witness ==
  /\ sn.alive /\ getState(sn) = "MOVE"
  /\ Len(sn.body_) > SNAKE_INITIAL_LENGTH
  /\ \E i \in 2..Len(sn.body_) : sn.body_[i] = ProspectiveHead(sn)
  /\ SnakeDied(sn, snake_update(sn))

----------------------------------------------------------------------------
(* Properties of the Tetris core *)

TFullRows(field) == {r \in TRows : \A c \in TCols : field[r][c] # 0}

\* the rows of `field` that are not full, top to bottom
RECURSIVE KeptRows(_, _)
KeptRows(field, r) ==
  IF r >= TETRIS_FIELD_ROWS THEN <<>>
  ELSE IF r \in TFullRows(field) THEN KeptRows(field, r + 1)
  ELSE <<field[r]>> \o KeptRows(field, r + 1)

\* the field with its full rows removed: k empty rows on top, then the rows
\* that were not full in their order
Compacted(field) ==
  LET k == Cardinality(TFullRows(field))
      kept == KeptRows(field, 0)
  IN [r \in TRows |-> IF r < k THEN EmptyRow ELSE kept[r - k + 1]]

\* the locked field with the piece burned in where the lock found it
BurnedField(g, locked) ==
  tetris_lock_piece([g EXCEPT !.current = locked.current]).field_storage

\* the removal copies at most one row, so every access is inside a row block
ClearIsDefined(field) ==
  TFullRows(field) # {} =>
    TETRIS_FIELD_ROWS - Min(TFullRows(field)) - Cardinality(TFullRows(field)) <= 1

\* C6: when a lock produces k >= 1 full rows, the locked field afterwards is
\* the rows that were not full, in their order and unchanged, moved down to
\* the bottom rows, under k empty rows on top.
C6_FullRowsRemovedAndCompacted ==
  [][(/\ tg.alive /\ tg'.alive
      /\ TStateName(tg.fsm.current) = "FALL"
      /\ TStateName(tg'.fsm.current) = "LOCK"
      /\ TFullRows(BurnedField(tg, tg')) # {}
      /\ ClearIsDefined(BurnedField(tg, tg')))
     => tg'.field_storage = Compacted(BurnedField(tg, tg'))]_vars

TetrisRunning == tg.alive /\ ~tg.crashed

TetrisIn(name) == TetrisRunning /\ TStateName(tg.fsm.current) = name

\* C11: once Tetris is in GAME_OVER, an update() leaves the game in GAME_OVER
\* and the field of the snapshot cell for cell as it was (so does any number
\* of updates).
C11_TetrisGameOverFieldFrozen ==
  TetrisIn("GAME_OVER") =>
    /\ TStateName(tetris_update(tg).fsm.current) = "GAME_OVER"
    /\ tetris_update_info_view(tetris_update(tg)) = tetris_update_info_view(tg)

\* a game over with blocks on the field, which update() finds and leaves
C11_Witness ==
  /\ TetrisIn("GAME_OVER")
  /\ tetris_update_info_view(tg) # EmptyField
  /\ tetris_update(tg) = tg

\* the calls that can lock the falling piece: a tick, Down, Down held
TetrisLockCalls(g) ==
  {tetris_update(g), tetris_handle_input(g, "Down", FALSE),
   tetris_handle_input(g, "Down", TRUE)}

\* what the undefined copy can make of a lock of the falling piece
TetrisLocks(g) ==
  {t \in UNION {TetrisLockCalls(TDrawing(g, TNoRandom, u)) : u \in TUndefined} :
     ~t.crashed /\ TStateName(t.fsm.current) = "LOCK"}

LineBonus(n) == <<100, 300, 700, 1500>>[n]

\* C19: a lock that the process survives and that completes n rows, n in
\* 1..4, adds 100, 300, 700, 1500 to the score and n to the cumulative line
\* count, and sets level = 1 + lines \div 10 and speed = base + level - 1; a
\* lock that completes no row leaves score, lines, level and speed as they were.
C19_LockScoresClearedRows ==
  TetrisIn("FALL") =>
    \A t \in TetrisLocks(tg) :
      LET n == Cardinality(TFullRows(BurnedField(tg, t)))
      IN /\ n \in 1..4 =>
              /\ t.info.score = tg.info.score + LineBonus(n)
              /\ t.lines_cleared = tg.lines_cleared + n
              /\ t.info.level = 1 + t.lines_cleared \div 10
              /\ t.info.speed = TETRIS_INITIAL_SPEED + t.info.level - 1
         /\ n = 0 =>
              /\ t.info.score = tg.info.score
              /\ t.lines_cleared = tg.lines_cleared
              /\ t.info.level = tg.info.level
              /\ t.info.speed = tg.info.speed

\* a lock has cleared three rows at once and carried the game over its tenth
\* line into level 2
C19_Witness ==
  /\ TetrisIn("LOCK")
  /\ tg.lines_cleared = MaxPriorLines + 3
  /\ tg.info.score = 100 * MaxPriorLines + 700
  /\ tg.info.level = 1 + (MaxPriorLines + 3) \div 10
  /\ tg.info.level > 1

\* a cell of the piece lies beside the field, or on a locked cell of it
TetrisBlocked(g, piece) ==
  \E cell \in PieceCells(piece) :
    \/ cell[2] \notin TCols
    \/ cell[1] \in TRows /\ g.field_storage[cell[1]][cell[2]] # 0

TetrisShifted(g, dx) == [g.current EXCEPT !.x = @ + dx]

TetrisSideMoves == {<<"Left", 0 - 1>>, <<"Right", 1>>}

\* C20: in FALL a Left or Right input whose target has a cell beside the
\* field or on a locked cell changes nothing of the game (piece, locked
\* field, score, FSM state); any other Left or Right input changes x by one
\* in its direction and nothing else.  Cells above the top row block nothing.
C20_SideMoveOrNothing ==
  TetrisIn("FALL") =>
    \A mv \in TetrisSideMoves, hold \in BOOLEAN :
      LET t == tetris_handle_input(tg, mv[1], hold)
      IN IF TetrisBlocked(tg, TetrisShifted(tg, mv[2]))
         THEN t = tg
         ELSE t = [tg EXCEPT !.current.x = @ + mv[2]]

\* a piece moved out of its spawn column begins above the top row and stands
\* beside locked cells: Left is refused for the locked cell, Right moves it
C20_Witness ==
  /\ TetrisIn("FALL")
  /\ \E cell \in PieceCells(tg.current) : cell[1] < 0
  /\ \E cell \in PieceCells(TetrisShifted(tg, 0 - 1)) :
       /\ cell[2] \in TCols /\ cell[1] \in TRows
       /\ tg.field_storage[cell[1]][cell[2]] # 0
  /\ \A cell \in PieceCells(TetrisShifted(tg, 0 - 1)) : cell[2] \in TCols
  /\ tg.current.x # TetrisSpawnX
  /\ tetris_handle_input(tg, "Left", FALSE) = tg
  /\ tetris_handle_input(tg, "Right", FALSE).current.x = tg.current.x + 1

\* a cell of the piece lies beside the field, under its floor, or on a
\* locked cell
TetrisObstructed(field, piece) ==
  \E cell \in PieceCells(piece) :
    \/ cell[2] \notin TCols
    \/ cell[1] >= TETRIS_FIELD_ROWS
    \/ cell[1] \in TRows /\ field[cell[1]][cell[2]] # 0

TetrisLowered(piece, d) == [piece EXCEPT !.y = @ + d]

\* how far the piece can go straight down without meeting an obstacle
TetrisDropDepth(field, piece) ==
  CHOOSE d \in 0..(TETRIS_FIELD_ROWS + MaxAbove) :
    /\ \A k \in 0..d : ~TetrisObstructed(field, TetrisLowered(piece, k))
    /\ TetrisObstructed(field, TetrisLowered(piece, d + 1))

\* `field` with the cells of `piece` set
TetrisBurn(field, piece) ==
  [r \in TRows |-> [c \in TCols |->
     IF <<r, c>> \in PieceCells(piece) THEN 1 ELSE field[r][c]]]

TetrisNonZero(field) ==
  Cardinality({rc \in TRows \X TCols : field[rc[1]][rc[2]] # 0})

\* C21: Down with hold in FALL puts the piece, x and rotation unchanged, on
\* the lowest row it reaches straight down without colliding, and the same
\* call leaves the FSM in LOCK; when the lock completes no row the locked
\* field is the old one plus exactly the cells of the piece there, and the
\* snapshot shows as many nonzero cells as before the input.
C21_HardDropLocksAtLowest ==
  (TetrisIn("FALL") /\ tg.current.y >= 0) =>
    \A u \in TUndefined :
      LET t == tetris_handle_input(TDrawing(tg, TNoRandom, u), "Down", TRUE)
          low == TetrisLowered(tg.current,
                               TetrisDropDepth(tg.field_storage, tg.current))
          burned == TetrisBurn(tg.field_storage, low)
      IN ~t.crashed =>
           /\ TStateName(t.fsm.current) = "LOCK"
           /\ t.current = low
           /\ TFullRows(burned) = {} =>
                /\ t.field_storage = burned
                /\ TetrisNonZero(tetris_update_info_view(t))
                     = TetrisNonZero(tetris_update_info_view(tg))

\* a piece moved out of its spawn column hangs two rows or more over its
\* resting place, and the hard drop locks it there without completing a row
C21_Witness ==
  /\ TetrisIn("FALL") /\ tg.current.y >= 0
  /\ tg.current.x # TetrisSpawnX
  /\ TetrisDropDepth(tg.field_storage, tg.current) >= 2
  /\ tg.field_storage # EmptyField
  /\ LET t == tetris_handle_input(tg, "Down", TRUE)
     IN /\ TStateName(t.fsm.current) = "LOCK"
        /\ t.current.y = tg.current.y + TetrisDropDepth(tg.field_storage, tg.current)
        /\ t.lines_cleared = tg.lines_cleared

\* the call that spawns in the current state: Start in INIT, a tick in LOCK
TetrisSpawnCall(g) ==
  IF TStateName(g.fsm.current) = "INIT"
  THEN tetris_handle_input(g, "Start", FALSE)
  ELSE tetris_update(g)

\* C22: the call that spawns (Start in INIT, a tick in LOCK) makes `next` the
\* current piece; when that piece lies on locked cells the call returns with
\* the game-over flag set and the FSM in GAME_OVER, otherwise with the flag
\* clear and the FSM in SPAWN.  A piece in SPAWN or FALL never lies on locked
\* cells.
C22_CollidingSpawnEndsGame ==
  TetrisRunning =>
    /\ TStateName(tg.fsm.current) \in {"INIT", "LOCK"} =>
         \A r \in TRandoms :
           LET t == TetrisSpawnCall(TDrawing(tg, r, TNoUndefined))
           IN /\ t.current = tg.next
              /\ IF TetrisObstructed(tg.field_storage, tg.next)
                 THEN t.game_over /\ TStateName(t.fsm.current) = "GAME_OVER"
                 ELSE ~t.game_over /\ TStateName(t.fsm.current) = "SPAWN"
    /\ TStateName(tg.fsm.current) \in {"SPAWN", "FALL"} =>
         ~tg.game_over /\ ~TetrisObstructed(tg.field_storage, tg.current)

\* the game has ended on a piece that was spawned onto locked cells
C22_Witness ==
  /\ TetrisIn("GAME_OVER")
  /\ tg.game_over
  /\ TetrisObstructed(tg.field_storage, tg.current)
  /\ tg.current.y = 0

\* the inputs that move a falling piece
TetrisMoves ==
  {"Left", "Right", "Action", "Down"} \X BOOLEAN

TetrisPausedOf(g) ==
  [g EXCEPT !.fsm.current = TState("PAUSED"), !.info.pause = 1]

TetrisResumedOf(g) ==
  [g EXCEPT !.fsm.current = TState("FALL"), !.info.pause = 0]

\* C23: Pause in FALL leads to PAUSED with the pause flag set and nothing
\* else changed; in PAUSED a tick and every Left, Right, Rotate, Down and
\* held Down leave the whole game as it is; Pause in PAUSED leads back to
\* FALL with the flag clear and nothing else changed, so that the update
\* after pausing and resuming does what it would have done without the pause.
C23_PauseFreezesPiece ==
  /\ TetrisIn("FALL") =>
       \A hold \in BOOLEAN :
         LET p == tetris_handle_input(tg, "Pause", hold)
             q == tetris_handle_input(p, "Pause", hold)
         IN /\ p = TetrisPausedOf(tg)
            /\ q.current = tg.current /\ q.info.pause = 0
            /\ TStateName(q.fsm.current) = "FALL"
            /\ \A u \in TUndefined :
                 tetris_update(TDrawing(q, TNoRandom, u))
                   = tetris_update(TDrawing(tg, TNoRandom, u))
  /\ TetrisIn("PAUSED") =>
       /\ tg.info.pause = 1
       /\ tetris_update(tg) = tg
       /\ \A mv \in TetrisMoves : tetris_handle_input(tg, mv[1], mv[2]) = tg
       /\ \A hold \in BOOLEAN :
            tetris_handle_input(tg, "Pause", hold) = TetrisResumedOf(tg)

\* the game is paused over a field with locked cells while the piece can
\* still fall
C23_Witness ==
  /\ TetrisIn("PAUSED")
  /\ tg.field_storage # EmptyField
  /\ ~TetrisObstructed(tg.field_storage, TetrisLowered(tg.current, 1))
  /\ tetris_update(tg) = tg
  /\ tetris_handle_input(tg, "Down", TRUE) = tg

TetrisTurned(piece) ==
  [piece EXCEPT !.rotation = (@ + 1) % 4]

\* C24: Rotate in FALL sets the rotation to (rotation + 1) mod 4 and changes
\* nothing else when the turned shape meets no obstacle at the same x and y;
\* when it does, the whole game is left as it is.  The rotation of the
\* current piece is always one of 0..3.
C24_RotateInPlaceOrNothing ==
  TetrisRunning =>
    /\ tg.current.rotation \in 0..3
    /\ TetrisIn("FALL") =>
         \A hold \in BOOLEAN :
           LET t == tetris_handle_input(tg, "Action", hold)
           IN IF TetrisObstructed(tg.field_storage, TetrisTurned(tg.current))
              THEN t = tg
              ELSE t = [tg EXCEPT !.current = TetrisTurned(tg.current)]

\* a piece moved out of its spawn column cannot turn where it is, though the
\* turned shape would fit one column to the right, and Rotate leaves it
C24_Witness ==
  /\ TetrisIn("FALL")
  /\ tg.current.x # TetrisSpawnX
  /\ TetrisObstructed(tg.field_storage, TetrisTurned(tg.current))
  /\ ~TetrisObstructed(tg.field_storage,
                       [TetrisTurned(tg.current) EXCEPT !.x = @ + 1])
  /\ tetris_handle_input(tg, "Action", FALSE) = tg

\* a tick and a soft Down
TetrisStepCalls(g) == {tetris_update(g), tetris_handle_input(g, "Down", FALSE)}

\* every call of the game contract that changes a game, for given draws
TetrisCalls(g) ==
  {tetris_update(g)}
    \cup {tetris_handle_input(g, a, h) : a \in UserActions, h \in BOOLEAN}

\* C25: in FALL a tick or a soft Down moves the piece down one row and
\* changes nothing else when the row below is free; otherwise the call
\* leaves the FSM in LOCK with the piece where it was and, unless rows were
\* completed, the locked field being the old one plus exactly the cells of
\* the piece.  The tick after a lock makes `next` the current piece and
\* leaves the field alone (the FSM is then in SPAWN, or in GAME_OVER when
\* the spawned piece collides).  Outside FALL no call changes the locked field.
C25_StepDownOrLock ==
  TetrisRunning =>
    /\ TetrisIn("FALL") =>
         \A u \in TUndefined :
           \A t \in TetrisStepCalls(TDrawing(tg, TNoRandom, u)) :
             IF ~TetrisObstructed(tg.field_storage, TetrisLowered(tg.current, 1))
             THEN t = [TDrawing(tg, TNoRandom, u) EXCEPT !.current.y = @ + 1]
             ELSE ~t.crashed =>
                    /\ TStateName(t.fsm.current) = "LOCK"
                    /\ t.current = tg.current
                    /\ TFullRows(TetrisBurn(tg.field_storage, tg.current)) = {} =>
                         t.field_storage = TetrisBurn(tg.field_storage, tg.current)
    /\ TetrisIn("LOCK") =>
         \A r \in TRandoms :
           LET t == tetris_update(TDrawing(tg, r, TNoUndefined))
           IN /\ TStateName(t.fsm.current) \in {"SPAWN", "GAME_OVER"}
              /\ t.current = tg.next
              /\ t.field_storage = tg.field_storage
    /\ ~TetrisIn("FALL") =>
         \A r \in TRandoms, u \in TUndefined :
           \A t \in TetrisCalls(TDrawing(tg, r, u)) :
             t.field_storage = tg.field_storage

\* a piece has been locked on top of locked cells without completing a row
C25_Witness ==
  /\ TetrisIn("LOCK")
  /\ tg.lines_cleared = 0
  /\ \A cell \in PieceCells(tg.current) :
       cell[1] \in TRows /\ tg.field_storage[cell[1]][cell[2]] = 1
  /\ TetrisNonZero(tg.field_storage) > 4
  /\ \E cell \in PieceCells(tg.current) : cell[1] + 1 < TETRIS_FIELD_ROWS
       /\ <<cell[1] + 1, cell[2]>> \notin PieceCells(tg.current)
       /\ tg.field_storage[cell[1] + 1][cell[2]] # 0

\* C31: in both games the stored high score is rewritten whenever the
\* in-memory high score is raised, so between calls the stored value equals
\* the in-memory one.
C31_RecordIsPersisted ==
  /\ sn.alive => sn.score_file = sn.info.high_score
  /\ (tg.alive /\ ~tg.crashed) => tg.score_file = tg.high_score

\* Start inputs and updates, at most n of them in any order
RECURSIVE TetrisRestarts(_, _)
TetrisRestarts(g, n) ==
  IF n = 0 THEN {g}
  ELSE {g} \cup UNION {TetrisRestarts(t, n - 1) :
                         t \in {tetris_update(g)}
                                 \cup {tetris_handle_input(g, "Start", h) : h \in BOOLEAN}}

TetrisClean(g) ==
  /\ TStateName(g.fsm.current) = "INIT"
  /\ g.info.score = 0 /\ g.info.level = 1 /\ g.info.pause = 0
  /\ g.field_storage = EmptyField
  /\ ~g.game_over

\* C33: from GAME_OVER some run of Start inputs and updates brings the game
\* back to a clean INIT state (score 0, level 1, pause 0, empty field,
\* game-over flag clear).
C33_GameOverResets ==
  TetrisIn("GAME_OVER") =>
    \E t \in TetrisRestarts(tg, MaxRestartCalls) : TetrisClean(t)

\* the states of a round that is being played
TetrisInPlay == {"SPAWN", "FALL", "LOCK", "PAUSED"}

\* C36: between calls, in FALL and in PAUSED, every cell of the current piece
\* is within the columns of the field, above its floor, and not on a locked
\* cell.
C36_PieceNeverOverlaps ==
  (TetrisRunning /\ TStateName(tg.fsm.current) \in {"FALL", "PAUSED"}) =>
    \A cell \in PieceCells(tg.current) :
      /\ cell[2] >= 0 /\ cell[2] <= TETRIS_FIELD_COLS - 1
      /\ cell[1] <= TETRIS_FIELD_ROWS - 1
      /\ cell[1] >= 0 => tg.field_storage[cell[1]][cell[2]] = 0

\* a piece moved sideways rests on locked cells with a locked cell beside it
C36_Witness ==
  /\ TetrisRunning /\ TStateName(tg.fsm.current) \in {"FALL", "PAUSED"}
  /\ tg.current.x # TetrisSpawnX
  /\ \E cell \in PieceCells(tg.current) :
       /\ cell[1] \in TRows /\ cell[1] + 1 \in TRows
       /\ tg.field_storage[cell[1] + 1][cell[2]] # 0
  /\ \E cell \in PieceCells(tg.current) :
       \E c \in {cell[2] - 1, cell[2] + 1} :
         /\ cell[1] \in TRows /\ c \in TCols
         /\ tg.field_storage[cell[1]][c] # 0

\* C38: in LOCK the field of the snapshot is the locked field, cell for
\* cell.
C38_LockSnapshotIsLockedField ==
  TetrisIn("LOCK") => tetris_update_info_view(tg) = tg.field_storage

\* the levels brickgame_is_valid_game_info accepts
MIN_LEVEL == 1
MAX_LEVEL == 10

\* C40: while Tetris is played the level of the snapshot is within
\* [MIN_LEVEL, MAX_LEVEL], however many lines have been cleared.
C40_LevelWithinValidRange ==
  (TetrisRunning /\ TStateName(tg.fsm.current) \in TetrisInPlay) =>
    /\ tg.info.level >= MIN_LEVEL
    /\ tg.info.level <= MAX_LEVEL

\* C34: a Terminate input in SPAWN, FALL, LOCK or PAUSED leaves the FSM in
\* GAME_OVER.
C34_TerminateEndsAnyRound ==
  (TetrisRunning /\ TStateName(tg.fsm.current) \in TetrisInPlay) =>
    \A hold \in BOOLEAN :
      TStateName(tetris_handle_input(tg, "Terminate", hold).fsm.current)
        = "GAME_OVER"

----------------------------------------------------------------------------
(* Properties of the game registry *)

BgRegistered(b, id) == bg_get_game(b, id).slot # 0

\* the contract registered under id lacks one of its five functions
BgIncomplete(b, id) ==
  /\ BgRegistered(b, id)
  /\ LET iface == BgInterfaceOf(b, bg_get_game(b, id).slot)
     IN \E f \in {iface.create, iface.destroy, iface.input, iface.update,
                  iface.get_info} : f = "NULL"

BgNoActiveGame(b) ==
  bg_get_current_game(b) = 0 /\ bg_get_current_instance(b) = 0

\* C13: bg_switch_game(id) for an id that is not registered, or whose contract
\* has a null function, returns false and leaves no active game, whether or
\* not a game was active before the call.
C13_FailedSwitchLeavesNoActiveGame ==
  BgRunning =>
    \A id \in BgSwitchIds :
      (~BgRegistered(bg, id) \/ BgIncomplete(bg, id)) =>
        LET r == bg_switch_game(BgCalling(bg), id, 0)
        IN ~r.ret /\ BgNoActiveGame(r.b)

\* the contract registered under id passes the checks of bg_switch_game: it
\* is registered under an id other than GAME_UNDEFINED and lacks no function
BgValid(b, id) ==
  BgRegistered(b, id) /\ ~BgIncomplete(b, id) /\ id # GAME_UNDEFINED

BgHasActive(b) == b.g_current.instance # 0 /\ b.g_current.iface # 0

\* id is the id of the active game
BgIsActiveId(b, id) ==
  BgHasActive(b) /\ b.g_registry[b.g_current.iface].iface.id = id

BgCallOf(fn, slot, instance) ==
  [fn |-> fn, slot |-> slot, instance |-> instance, action |-> "none",
   hold |-> FALSE]

\* C14: bg_switch_game(id) to a valid registered contract other than the
\* active one destroys the prior instance once, through the prior contract,
\* before the new contract's create; when create yields an instance the new
\* pair is active and the call returns true, when it yields NULL the call
\* returns false and no game is active.
C14_SwitchDestroysThenCreates ==
  BgRunning =>
    \A id \in BgSwitchIds, m \in BgMalloc :
      LET r == bg_switch_game(BgCalling(bg), id, m)
          slot == bg_get_game(bg, id).slot
          prior == IF BgHasActive(bg)
                   THEN <<BgCallOf("destroy", bg.g_current.iface,
                                   bg.g_current.instance)>>
                   ELSE <<>>
      IN (BgValid(bg, id) /\ ~BgIsActiveId(bg, id) /\ ~r.b.alloc_clash) =>
           /\ r.b.calls = prior \o <<BgCallOf("create", slot, 0)>>
           /\ ~r.b.bad_free
           /\ BgHasActive(bg) => bg.g_current.instance \notin (r.b.live \ {m})
           /\ m # 0 => /\ r.ret
                       /\ r.b.g_current = [iface |-> slot, instance |-> m]
                       /\ r.b.live = {m}
           /\ m = 0 => /\ ~r.ret
                       /\ BgNoActiveGame(r.b)
                       /\ r.b.live = {}

\* a switch has just replaced the instance of one game by that of another
C14_Witness ==
  /\ BgRunning
  /\ Len(bg.calls) = 2
  /\ bg.calls[1].fn = "destroy" /\ bg.calls[2].fn = "create"
  /\ bg.calls[1].slot # bg.calls[2].slot
  /\ bg.g_current.iface = bg.calls[2].slot
  /\ bg.g_current.instance # 0

\* C15: bg_switch_game(id) for the id of the active game returns true, calls
\* neither destroy nor create and leaves the registry, the active pair and
\* the instance as they were, so that repeating the call changes nothing
\* either.
C15_SwitchToActiveIsNoOp ==
  BgRunning =>
    \A id \in BgSwitchIds, m \in BgMalloc :
      BgIsActiveId(bg, id) =>
        LET r == bg_switch_game(BgCalling(bg), id, m)
        IN /\ r.ret
           /\ r.b.calls = <<>>
           /\ r.b = BgCalling(bg)
           /\ bg_get_current_instance(r.b) = bg_get_current_instance(bg)
           /\ bg_switch_game(r.b, id, m) = r

\* the active game has just been asked for again
C15_Witness ==
  /\ BgRunning
  /\ BgHasActive(bg)
  /\ bg.calls = <<>>
  /\ \E id \in BgSwitchIds :
       /\ BgIsActiveId(bg, id)
       /\ bg_switch_game(bg, id, 0).b = bg

\* C16: after any sequence of register, switch, input and update calls at
\* most one instance is live, the live instance is the active one and there
\* is one exactly when a game is active, the active contract and the active
\* instance are both null or both non-null, and no replaced instance is left
\* undestroyed or destroyed twice.
C16_OneLiveInstance ==
  BgRunning =>
    /\ Cardinality(bg.live) <= 1
    /\ bg.live = IF bg_get_current_instance(bg) # 0
                 THEN {bg_get_current_instance(bg)} ELSE {}
    /\ (bg_get_current_game(bg) = 0) <=> (bg_get_current_instance(bg) = 0)
    /\ ~bg.bad_free

\* the active instance was destroyed and the create that followed failed
C16_Witness ==
  /\ BgRunning
  /\ Len(bg.calls) = 2
  /\ bg.calls[1].fn = "destroy" /\ bg.calls[2].fn = "create"
  /\ bg.calls[1].instance # 0
  /\ BgNoActiveGame(bg)
  /\ bg.live = {}

BgRegisteredSlots(b) == {i \in BgSlots : b.g_registry[i].registered}

BgFull(b) == BgRegisteredSlots(b) = BgSlots

BgAllIds == BgSwitchIds \cup {StartupId(i) : i \in BgSlots}

\* stands for the NULL that bg_get_game returns
BgNoInterface == [ZeroInterface EXCEPT !.id = -1]

\* the contract bg_get_game(id) hands out
BgLookup(b, id) ==
  IF bg_get_game(b, id).slot = 0 THEN BgNoInterface
  ELSE BgInterfaceOf(b, bg_get_game(b, id).slot)

\* C17: bg_register_game with an id that is already registered, or with 8
\* contracts registered, changes nothing: bg_get_game returns for every id
\* what it returned before, the first contract of a duplicated id included,
\* and the rejected contract cannot be retrieved; no two entries share an id
\* and there are never more than 8 entries.
C17_RejectedRegistrationChangesNothing ==
  BgRunning =>
    /\ Cardinality(BgRegisteredSlots(bg)) <= BG_MAX_GAMES
    /\ \A i, j \in BgRegisteredSlots(bg) :
         bg.g_registry[i].iface.id = bg.g_registry[j].iface.id => i = j
    /\ \A id \in BgGameIds, missing \in BgMissing :
         LET iface == TestInterface(id, missing)
             r == bg_register_game(BgCalling(bg), iface)
         IN (BgRegistered(bg, id) \/ BgFull(bg)) =>
              /\ r = BgCalling(bg)
              /\ \A other \in BgAllIds : BgLookup(r, other) = BgLookup(bg, other)
              /\ BgLookup(bg, id) # iface => BgLookup(r, id) # iface

\* a full registry that turns a new id away, and keeps the first contract of
\* an id it holds when a different one is offered
C17_Witness ==
  /\ BgRunning
  /\ BgFull(bg)
  /\ \E id \in BgGameIds :
       /\ ~BgRegistered(bg, id)
       /\ BgLookup(bg_register_game(bg, TestInterface(id, "none")), id) = BgNoInterface
  /\ \E id \in BgGameIds, missing \in BgMissing :
       /\ BgRegistered(bg, id)
       /\ BgLookup(bg, id) # TestInterface(id, missing)
       /\ bg_register_game(bg, TestInterface(id, missing)) = bg

====
